---- MODULE Spec2Model ----
(***************************************************************************)
(* A model of flatline.h, the header-only library of constant-time         *)
(* primitives.  Unsigned words are modelled as bit vectors (tuples of 0/1, *)
(* index 1 the least significant bit) so that every width of the source    *)
(* (8, 16, 32, 64, size_t) keeps its own wrapping arithmetic; the integer  *)
(* promotions and narrowing casts of the C expressions are modelled by     *)
(* ZExt and Trunc.  Byte buffers are tuples of naturals 0..255.            *)
(***************************************************************************)
EXTENDS Integers, Naturals, Sequences, FiniteSets, TLC

\* pc: where the call stands; fn, args: the function called and its operands;
\* mem: the caller's memory the call may write; loc: the locals of a running
\* loop; ret: the value returned
VARIABLES pc, fn, args, mem, loc, ret

vars == <<pc, fn, args, mem, loc, ret>>

(***************************************************************************)
(* Bounds of the model.                                                    *)
(***************************************************************************)
\* operands are taken within Spread of 0, of 2^(W-1) and of 2^W - 1
Spread == 2
\* byte buffers of the scan and memory primitives have 0..MaxLen elements
MaxLen == 2

(***************************************************************************)
(* Fixed-width unsigned words.                                             *)
(***************************************************************************)
\* bits of size_t and uintptr_t on the LP64 targets the library tests on
SizeBits == 64

Vec(W, F(_)) == SubSeq([i \in 1..W |-> F(i)], 1, W)

\* the W-bit word of a natural n < 2^31
ToBits(n, W) == Vec(W, LAMBDA i : IF i > 31 THEN 0 ELSE (n \div 2^(i - 1)) % 2)

\* the natural of a word whose bits above the 31st are clear
RECURSIVE ToNatFrom(_, _)
ToNatFrom(a, i) ==
  IF i > Len(a) \/ i > 31 THEN 0 ELSE a[i] + 2 * ToNatFrom(a, i + 1)
ToNat(a) == ToNatFrom(a, 1)

Zero(W) == Vec(W, LAMBDA i : 0)
Ones(W) == Vec(W, LAMBDA i : 1)

\* C's &, |, ^, ~ on words of one width
BvAnd(a, b) == Vec(Len(a), LAMBDA i : a[i] * b[i])
BvOr(a, b) == Vec(Len(a), LAMBDA i : IF a[i] + b[i] > 0 THEN 1 ELSE 0)
BvXor(a, b) == Vec(Len(a), LAMBDA i : (a[i] + b[i]) % 2)
BvNot(a) == Vec(Len(a), LAMBDA i : 1 - a[i])

\* C's >> and << on an unsigned word, by a count below the width
BvShr(a, n) == Vec(Len(a), LAMBDA i : IF i + n <= Len(a) THEN a[i + n] ELSE 0)
BvShl(a, n) == Vec(Len(a), LAMBDA i : IF i - n >= 1 THEN a[i - n] ELSE 0)

\* C's + and - on unsigned words: the carry chain over bits lo..hi with carry
\* c in, as <<sum bits, carry out>>; the carry out of the top bit is dropped
\* (arithmetic modulo 2^W)
RECURSIVE AddRange(_, _, _, _, _)
AddRange(a, b, c, lo, hi) ==
  IF lo = hi
  THEN LET s == a[lo] + b[lo] + c IN <<(<<s % 2>>), s \div 2>>
  ELSE LET mid == (lo + hi) \div 2
           L == AddRange(a, b, c, lo, mid)
           R == AddRange(a, b, L[2], mid + 1, hi)
       IN <<L[1] \o R[1], R[2]>>
BvAdd(a, b) == AddRange(a, b, 0, 1, Len(a))[1]
BvSub(a, b) == AddRange(a, BvNot(b), 1, 1, Len(a))[1]

\* a conversion to a wider unsigned type, and a narrowing cast
ZExt(a, W) == Vec(W, LAMBDA i : IF i <= Len(a) THEN a[i] ELSE 0)
Trunc(a, W) == SubSeq(a, 1, W)

(***************************************************************************)
(* Masks & predicates (branchless).                                        *)
(***************************************************************************)
\* (uint8_t)((uint8_t)0 - (uint8_t)(bit & 1u)), the subtraction done in int
flat_mask_from_bit_u8(bit) ==
  Trunc(BvSub(ZExt(Zero(8), 32), ZExt(Trunc(BvAnd(bit, ToBits(1, 32)), 8), 32)), 8)
flat_mask_from_bit_u16(bit) ==
  Trunc(BvSub(ZExt(Zero(16), 32), ZExt(Trunc(BvAnd(bit, ToBits(1, 32)), 16), 32)), 16)
\* a mask_from_bit that forgets the "& 1u"
flat_mask_from_bit_u32_nolowbit(bit) == BvSub(Zero(32), bit)
flat_mask_from_bit_u32(bit) == BvSub(Zero(32), BvAnd(bit, ToBits(1, 32)))
flat_mask_from_bit_u64(bit) ==
  BvSub(Zero(64), ZExt(BvAnd(bit, ToBits(1, 32)), 64))
flat_mask_from_bit_sz(bit) ==
  BvSub(Zero(SizeBits), ZExt(BvAnd(bit, ToBits(1, 32)), SizeBits))

\* an is_zero that stops at the shifted sign bit and returns 0 or 1
flat_mask_is_zero_u8_bit(x) ==
  Trunc(BvShr(ZExt(Trunc(BvOr(ZExt(x, 32),
        ZExt(Trunc(BvSub(Zero(32), ZExt(x, 32)), 8), 32)), 8), 32), 7), 8)
\* (uint8_t)((((uint8_t)(x | (uint8_t)(0u - x))) >> 7) - 1u)
flat_mask_is_zero_u8(x) ==
  Trunc(BvSub(BvShr(ZExt(Trunc(BvOr(ZExt(x, 32),
        ZExt(Trunc(BvSub(Zero(32), ZExt(x, 32)), 8), 32)), 8), 32), 7),
        ToBits(1, 32)), 8)
flat_mask_is_zero_u16(x) ==
  Trunc(BvSub(BvShr(ZExt(Trunc(BvOr(ZExt(x, 32),
        ZExt(Trunc(BvSub(Zero(32), ZExt(x, 32)), 16), 32)), 16), 32), 15),
        ToBits(1, 32)), 16)
flat_mask_is_zero_u32(x) ==
  BvSub(BvShr(BvOr(x, BvSub(Zero(32), x)), 31), ToBits(1, 32))
flat_mask_is_zero_u64(x) ==
  BvSub(BvShr(BvOr(x, BvSub(Zero(64), x)), 63), ToBits(1, 64))
flat_mask_is_zero_sz(x) ==
  BvSub(BvShr(BvOr(x, BvSub(Zero(SizeBits), x)), SizeBits - 1),
        ToBits(1, SizeBits))

flat_mask_eq_u8(a, b) == flat_mask_is_zero_u8(Trunc(BvXor(ZExt(a, 32), ZExt(b, 32)), 8))
flat_mask_eq_u16(a, b) == flat_mask_is_zero_u16(Trunc(BvXor(ZExt(a, 32), ZExt(b, 32)), 16))
flat_mask_eq_u32(a, b) == flat_mask_is_zero_u32(BvXor(a, b))
flat_mask_eq_u64(a, b) == flat_mask_is_zero_u64(BvXor(a, b))
flat_mask_eq_sz(a, b) == flat_mask_is_zero_sz(BvXor(a, b))

\* a < b ? 0xFF..FF : 0.  In the u8 and u16 versions a and b are promoted to
\* int, (a - b) is a 32-bit two's complement difference and the casts narrow.
flat_mask_lt_u8(a, b) ==
  LET a32 == ZExt(a, 32)
      b32 == ZExt(b, 32)
      x == ZExt(Trunc(BvXor(a32, b32), 8), 32)
      y == ZExt(Trunc(BvXor(BvSub(a32, b32), b32), 8), 32)
      t == Trunc(BvShr(BvXor(a32, BvOr(x, y)), 7), 8)
  IN Trunc(BvSub(Zero(32), BvAnd(ZExt(t, 32), ToBits(1, 32))), 8)
flat_mask_lt_u16(a, b) ==
  LET a32 == ZExt(a, 32)
      b32 == ZExt(b, 32)
      x == ZExt(Trunc(BvXor(a32, b32), 16), 32)
      y == ZExt(Trunc(BvXor(BvSub(a32, b32), b32), 16), 32)
      t == Trunc(BvShr(BvXor(a32, BvOr(x, y)), 15), 16)
  IN Trunc(BvSub(Zero(32), BvAnd(ZExt(t, 32), ToBits(1, 32))), 16)
\* a mask_lt that takes the sign of the wrapped difference alone
flat_mask_lt_u32_signdiff(a, b) ==
  LET t == BvShr(BvSub(a, b), 31)
  IN BvSub(Zero(32), BvAnd(t, ToBits(1, 32)))
flat_mask_lt_u32(a, b) ==
  LET t == BvShr(BvXor(a, BvOr(BvXor(a, b), BvXor(BvSub(a, b), b))), 31)
  IN BvSub(Zero(32), BvAnd(t, ToBits(1, 32)))
flat_mask_lt_u64(a, b) ==
  LET t == BvShr(BvXor(a, BvOr(BvXor(a, b), BvXor(BvSub(a, b), b))), 63)
  IN BvSub(Zero(64), BvAnd(t, ToBits(1, 64)))
flat_mask_lt_sz(a, b) ==
  LET W == SizeBits - 1
      t == BvShr(BvXor(a, BvOr(BvXor(a, b), BvXor(BvSub(a, b), b))), W)
  IN BvSub(Zero(SizeBits), BvAnd(t, ToBits(1, SizeBits)))
flat_mask_to_bit_u32(m) == BvAnd(m, ToBits(1, 32))

(***************************************************************************)
(* Selectors (cond ? yes : no), branchless.                                *)
(***************************************************************************)
flat_select_u8_mask(yes, no, mask) ==
  Trunc(BvOr(BvAnd(ZExt(yes, 32), ZExt(mask, 32)),
             BvAnd(ZExt(no, 32), ZExt(Trunc(BvNot(ZExt(mask, 32)), 8), 32))), 8)
flat_select_u16_mask(yes, no, mask) ==
  Trunc(BvOr(BvAnd(ZExt(yes, 32), ZExt(mask, 32)),
             BvAnd(ZExt(no, 32), ZExt(Trunc(BvNot(ZExt(mask, 32)), 16), 32))), 16)
flat_select_u32_mask(yes, no, mask) == BvOr(BvAnd(yes, mask), BvAnd(no, BvNot(mask)))
flat_select_u64_mask(yes, no, mask) == BvOr(BvAnd(yes, mask), BvAnd(no, BvNot(mask)))
flat_select_sz_mask(yes, no, mask) == BvOr(BvAnd(yes, mask), BvAnd(no, BvNot(mask)))

flat_select_u8(cond, yes, no) == flat_select_u8_mask(yes, no, flat_mask_from_bit_u8(cond))
flat_select_u16(cond, yes, no) == flat_select_u16_mask(yes, no, flat_mask_from_bit_u16(cond))
flat_select_u32(cond, yes, no) == flat_select_u32_mask(yes, no, flat_mask_from_bit_u32(cond))
flat_select_u64(cond, yes, no) == flat_select_u64_mask(yes, no, flat_mask_from_bit_u64(cond))
flat_select_sz(cond, yes, no) == flat_select_sz_mask(yes, no, flat_mask_from_bit_sz(cond))

\* pointers as uintptr_t words
flat_ptr_select(cond, yes, no) ==
  LET m == flat_mask_from_bit_sz(cond)
  IN BvOr(BvAnd(yes, m), BvAnd(no, BvNot(m)))

(***************************************************************************)
(* Operands of the calls.                                                  *)
(***************************************************************************)
Types == {"u8", "u16", "u32", "u64", "sz"}
Width(ty) ==
  CASE ty = "u8" -> 8 [] ty = "u16" -> 16 [] ty = "u32" -> 32
    [] ty = "u64" -> 64 [] ty = "sz" -> SizeBits

\* the word with only its top bit set
TopBit(W) == Vec(W, LAMBDA i : IF i = W THEN 1 ELSE 0)
\* 0x55..55 and 0xAA..AA
Alt(W) == {Vec(W, LAMBDA i : i % 2), Vec(W, LAMBDA i : (i + 1) % 2)}
\* the words within Spread of 0, of 2^(W-1) and of 2^W - 1
Near(W) ==
  UNION {{ToBits(k, W), BvAdd(TopBit(W), ToBits(k, W)),
          BvSub(TopBit(W), ToBits(k, W)), BvSub(Ones(W), ToBits(k, W))}
         : k \in 0..Spread}
Words(W) == Near(W) \cup Alt(W)
\* an unsigned cond
Conds == Near(32)

\* a < b as unsigned integers: at the highest bit where they differ a has 0
ULt(a, b) ==
  \E i \in 1..Len(a) :
    /\ a[i] = 0 /\ b[i] = 1
    /\ \A j \in (i + 1)..Len(a) : a[j] = b[j]
IsMask(m) == m = Zero(Len(m)) \/ m = Ones(Len(m))

(***************************************************************************)
(* Calls of the mask algebra and of the selectors: one call per behaviour. *)
(***************************************************************************)
MaskFns == {"mask_from_bit", "mask_is_zero", "mask_eq", "mask_lt", "select",
            "ptr_select"}

MaskArgs(f) ==
  CASE f = "mask_from_bit" -> [ty : Types, bit : Conds]
    [] f = "mask_is_zero" -> UNION {[ty : {t}, x : Words(Width(t))] : t \in Types}
    [] f \in {"mask_eq", "mask_lt"} ->
         UNION {[ty : {t}, a : Words(Width(t)), b : Words(Width(t))] : t \in Types}
    [] f = "select" ->
         UNION {[ty : {t}, cond : Conds,
                 yes : Alt(Width(t)) \cup {Ones(Width(t))},
                 no : Alt(Width(t)) \cup {Zero(Width(t))}] : t \in Types}
    [] f = "ptr_select" ->
         [cond : Conds, yes : Alt(SizeBits) \cup {Ones(SizeBits)},
          no : Alt(SizeBits) \cup {Zero(SizeBits)}]

InitMask ==
  /\ pc = "call"
  /\ fn \in MaskFns
  /\ args \in MaskArgs(fn)
  /\ mem = <<>>
  /\ loc = <<>>
  /\ ret = <<>>

Return(v) ==
  /\ pc' = "done"
  /\ ret' = v
  /\ UNCHANGED <<fn, args, mem, loc>>

MaskFromBit ==
  /\ pc = "call" /\ fn = "mask_from_bit"
  /\ Return(CASE args.ty = "u8" -> flat_mask_from_bit_u8(args.bit)
              [] args.ty = "u16" -> flat_mask_from_bit_u16(args.bit)
              [] args.ty = "u32" -> flat_mask_from_bit_u32(args.bit)
              [] args.ty = "u64" -> flat_mask_from_bit_u64(args.bit)
              [] args.ty = "sz" -> flat_mask_from_bit_sz(args.bit))

MaskIsZero ==
  /\ pc = "call" /\ fn = "mask_is_zero"
  /\ Return(CASE args.ty = "u8" -> flat_mask_is_zero_u8(args.x)
              [] args.ty = "u16" -> flat_mask_is_zero_u16(args.x)
              [] args.ty = "u32" -> flat_mask_is_zero_u32(args.x)
              [] args.ty = "u64" -> flat_mask_is_zero_u64(args.x)
              [] args.ty = "sz" -> flat_mask_is_zero_sz(args.x))

MaskEq ==
  /\ pc = "call" /\ fn = "mask_eq"
  /\ Return(CASE args.ty = "u8" -> flat_mask_eq_u8(args.a, args.b)
              [] args.ty = "u16" -> flat_mask_eq_u16(args.a, args.b)
              [] args.ty = "u32" -> flat_mask_eq_u32(args.a, args.b)
              [] args.ty = "u64" -> flat_mask_eq_u64(args.a, args.b)
              [] args.ty = "sz" -> flat_mask_eq_sz(args.a, args.b))

MaskLt ==
  /\ pc = "call" /\ fn = "mask_lt"
  /\ Return(CASE args.ty = "u8" -> flat_mask_lt_u8(args.a, args.b)
              [] args.ty = "u16" -> flat_mask_lt_u16(args.a, args.b)
              [] args.ty = "u32" -> flat_mask_lt_u32(args.a, args.b)
              [] args.ty = "u64" -> flat_mask_lt_u64(args.a, args.b)
              [] args.ty = "sz" -> flat_mask_lt_sz(args.a, args.b))

Select ==
  /\ pc = "call" /\ fn = "select"
  /\ Return(CASE args.ty = "u8" -> flat_select_u8(args.cond, args.yes, args.no)
              [] args.ty = "u16" -> flat_select_u16(args.cond, args.yes, args.no)
              [] args.ty = "u32" -> flat_select_u32(args.cond, args.yes, args.no)
              [] args.ty = "u64" -> flat_select_u64(args.cond, args.yes, args.no)
              [] args.ty = "sz" -> flat_select_sz(args.cond, args.yes, args.no))

PtrSelect ==
  /\ pc = "call" /\ fn = "ptr_select"
  /\ Return(flat_ptr_select(args.cond, args.yes, args.no))

NextMask ==
  \/ MaskFromBit
  \/ MaskIsZero
  \/ MaskEq
  \/ MaskLt
  \/ Select
  \/ PtrSelect

SpecMask == InitMask /\ [][NextMask]_vars

Returned(f) == pc = "done" /\ fn = f

(***************************************************************************)
(* Properties of the mask algebra and of the selectors.                    *)
(***************************************************************************)
\* C8: for every width, flat_mask_lt_W(a, b) is exactly 0 or all-ones, and
\* its low bit is 1 if and only if a < b as unsigned integers.
C8_MaskLtIsUnsignedLess ==
  Returned("mask_lt") =>
    /\ Len(ret) = Width(args.ty)
    /\ IsMask(ret)
    /\ (ret[1] = 1) <=> ULt(args.a, args.b)

\* a < b holds although a has its top bit set and b <= a - 1 wraps below
C8_Witness ==
  /\ Returned("mask_lt")
  /\ args.ty = "u64"
  /\ args.a = TopBit(64)
  /\ args.b = Ones(64)
  /\ ret = Ones(64)

\* C9: mask_from_bit, mask_is_zero and mask_eq return exactly 0 or all-ones;
\* mask_from_bit is all-ones iff b is odd, mask_is_zero iff x = 0, and
\* mask_eq(a, b) iff a = b.
C9_MasksAreAllOrNothing ==
  /\ Returned("mask_from_bit") =>
       /\ Len(ret) = Width(args.ty)
       /\ ret = IF args.bit[1] = 1 THEN Ones(Width(args.ty)) ELSE Zero(Width(args.ty))
  /\ Returned("mask_is_zero") =>
       /\ Len(ret) = Width(args.ty)
       /\ ret = IF args.x = Zero(Width(args.ty)) THEN Ones(Width(args.ty))
                ELSE Zero(Width(args.ty))
  /\ Returned("mask_eq") =>
       /\ Len(ret) = Width(args.ty)
       /\ ret = IF args.a = args.b THEN Ones(Width(args.ty)) ELSE Zero(Width(args.ty))

\* a one-bit difference in the top bit of a byte is still "not equal", and an
\* even bit with high bits set is still "false"
C9_Witness ==
  \/ /\ Returned("mask_is_zero") /\ args.ty = "u8" /\ args.x = TopBit(8)
     /\ ret = Zero(8)
  \/ /\ Returned("mask_from_bit") /\ args.bit = ToBits(2, 32) /\ ret = Zero(Width(args.ty))

\* C10: for every cond, flat_select_W(cond, x, y) is x when cond & 1 = 1 and
\* y when cond & 1 = 0, bit for bit; flat_ptr_select does the same.
C10_SelectByLowBit ==
  (Returned("select") \/ Returned("ptr_select")) =>
    ret = IF args.cond[1] = 1 THEN args.yes ELSE args.no

\* cond = 2: high bit set, low bit clear, the "no" value comes back
C10_Witness ==
  /\ Returned("select")
  /\ args.ty = "u32"
  /\ args.cond = ToBits(2, 32)
  /\ args.yes # args.no
  /\ ret = args.no

(***************************************************************************)
(* Constant-time division (bit-serial long division, fixed 32/64 iters).   *)
(* The loop is modelled one iteration per step; loc.i is the loop counter, *)
(* loc.iters counts the executions of the loop body.                       *)
(***************************************************************************)
\* uint64_t qv = 0, rv = 0; int i = 63
flat_div_mod_ct_u64_entry == [i |-> 63, qv |-> Zero(64), rv |-> Zero(64), iters |-> 0]
flat_div_mod_ct_u32_entry == [i |-> 31, qv |-> Zero(32), rv |-> Zero(32), iters |-> 0]

\* a loop that is skipped when the divisor is zero
flat_div_mod_ct_more_skipzero(l, n, d) == l.i >= 0 /\ d # Zero(Len(d))
\* the loop condition, i >= 0
flat_div_mod_ct_more(l, n, d) == l.i >= 0

\* a body that brings the bits of n in from the low end
flat_div_mod_ct_u64_body_lsbfirst(l, n, d) ==
  LET rv1 == BvOr(BvShl(l.rv, 1), BvAnd(BvShr(n, 63 - l.i), ToBits(1, 64)))
      ge == BvNot(flat_mask_lt_u64(rv1, d))
  IN [i |-> l.i - 1,
      qv |-> BvOr(l.qv, BvAnd(BvShl(ToBits(1, 64), l.i), ge)),
      rv |-> BvSub(rv1, BvAnd(d, ge)),
      iters |-> l.iters + 1]

\* the loop body
flat_div_mod_ct_u64_body(l, n, d) ==
  LET rv1 == BvOr(BvShl(l.rv, 1), BvAnd(BvShr(n, l.i), ToBits(1, 64)))
      ge == BvNot(flat_mask_lt_u64(rv1, d))
  IN [i |-> l.i - 1,
      qv |-> BvOr(l.qv, BvAnd(BvShl(ToBits(1, 64), l.i), ge)),
      rv |-> BvSub(rv1, BvAnd(d, ge)),
      iters |-> l.iters + 1]
\* a body that subtracts only when rv > d
flat_div_mod_ct_u32_body_strict(l, n, d) ==
  LET rv1 == BvOr(BvShl(l.rv, 1), BvAnd(BvShr(n, l.i), ToBits(1, 32)))
      ge == flat_mask_lt_u32(d, rv1)
  IN [i |-> l.i - 1,
      qv |-> BvOr(l.qv, BvAnd(BvShl(ToBits(1, 32), l.i), ge)),
      rv |-> BvSub(rv1, BvAnd(d, ge)),
      iters |-> l.iters + 1]
flat_div_mod_ct_u32_body(l, n, d) ==
  LET rv1 == BvOr(BvShl(l.rv, 1), BvAnd(BvShr(n, l.i), ToBits(1, 32)))
      ge == BvNot(flat_mask_lt_u32(rv1, d))
  IN [i |-> l.i - 1,
      qv |-> BvOr(l.qv, BvAnd(BvShl(ToBits(1, 32), l.i), ge)),
      rv |-> BvSub(rv1, BvAnd(d, ge)),
      iters |-> l.iters + 1]

\* after the loop: ok, and the values stored through q and r
flat_div_mod_ct_u64_exit(l, d) ==
  LET ok == Trunc(BvAnd(BvNot(flat_mask_is_zero_u64(d)), ToBits(1, 64)), 32)
  IN [ok |-> ok,
      q |-> flat_select_u64(ok, l.qv, Zero(64)),
      r |-> flat_select_u64(ok, l.rv, Zero(64))]
flat_div_mod_ct_u32_exit(l, d) ==
  LET ok == BvAnd(BvNot(flat_mask_is_zero_u32(d)), ToBits(1, 32))
  IN [ok |-> ok,
      q |-> flat_select_u32(ok, l.qv, Zero(32)),
      r |-> flat_select_u32(ok, l.rv, Zero(32))]

DivTypes == {"u32", "u64"}
\* what *q and *r hold before the call
Garbage(W) == {Vec(W, LAMBDA i : i % 2)}

InitDiv ==
  /\ pc = "call"
  /\ fn = "div_mod_ct"
  /\ args \in UNION {[ty : {t}, n : Words(Width(t)), d : Words(Width(t))] : t \in DivTypes}
  /\ mem \in [q : Garbage(Width(args.ty)), r : {TopBit(Width(args.ty))}]
  /\ loc = <<>>
  /\ ret = <<>>

DivEnter ==
  /\ pc = "call" /\ fn = "div_mod_ct"
  /\ pc' = "loop"
  /\ loc' = IF args.ty = "u64" THEN flat_div_mod_ct_u64_entry
            ELSE flat_div_mod_ct_u32_entry
  /\ UNCHANGED <<fn, args, mem, ret>>

DivIter ==
  /\ pc = "loop" /\ fn = "div_mod_ct"
  /\ flat_div_mod_ct_more(loc, args.n, args.d)
  /\ loc' = IF args.ty = "u64" THEN flat_div_mod_ct_u64_body(loc, args.n, args.d)
            ELSE flat_div_mod_ct_u32_body(loc, args.n, args.d)
  /\ UNCHANGED <<pc, fn, args, mem, ret>>

DivExit ==
  /\ pc = "loop" /\ fn = "div_mod_ct"
  /\ ~flat_div_mod_ct_more(loc, args.n, args.d)
  /\ LET out == IF args.ty = "u64" THEN flat_div_mod_ct_u64_exit(loc, args.d)
                ELSE flat_div_mod_ct_u32_exit(loc, args.d)
     IN /\ mem' = [q |-> out.q, r |-> out.r]
        /\ ret' = out.ok
  /\ pc' = "done"
  /\ UNCHANGED <<fn, args, loc>>

NextDiv ==
  \/ DivEnter
  \/ DivIter
  \/ DivExit

SpecDiv == InitDiv /\ [][NextDiv]_vars

\* The naturals behind the words, as base-256 digits (least significant
\* first), for the arithmetic of the unbounded integers.
Digit(a, k) == ToNat(SubSeq(a, 8 * k + 1, 8 * k + 8))
Digits(a, count) ==
  Vec(count, LAMBDA k : IF 8 * k <= Len(a) THEN Digit(a, k - 1) ELSE 0)
\* the sum of q_i * d_(k-i) over the digits i = 0..hi; q and d are digit
\* sequences
RECURSIVE ConvSum(_, _, _, _)
ConvSum(q, d, k, hi) ==
  IF hi < 0 THEN 0
  ELSE (IF k - hi + 1 <= Len(d) THEN q[hi + 1] * d[k - hi + 1] ELSE 0)
       + ConvSum(q, d, k, hi - 1)
\* the digits k.. of q * d + r, with the carry into digit k; q, d and r are
\* digit sequences of the same length
RECURSIVE MulAddFrom(_, _, _, _, _)
MulAddFrom(q, d, r, k, carry) ==
  LET L == Len(q)
      s == carry + (IF k < L THEN r[k + 1] ELSE 0)
                 + ConvSum(q, d, k, IF k < L THEN k ELSE L - 1)
  IN IF k = 2 * L THEN <<>>
     ELSE <<s % 256>> \o MulAddFrom(q, d, r, k + 1, s \div 256)
\* n = q * d + r over the integers
IsQuotRem(n, d, q, r) ==
  LET L == Len(n) \div 8
  IN MulAddFrom(Digits(q, L), Digits(d, L), Digits(r, L), 0, 0) = Digits(n, 2 * L)

\* C2: if d != 0 then flat_div_mod_ct returns ok=1 with n = q*d + r and r < d;
\* if d = 0 it returns ok=0 and writes q = 0 and r = 0, whatever q and r held.
C2_DivModContract ==
  Returned("div_mod_ct") =>
    LET W == Width(args.ty)
    IN IF args.d # Zero(W)
       THEN /\ ret = ToBits(1, 32)
            /\ IsQuotRem(args.n, args.d, mem.q, mem.r)
            /\ ULt(mem.r, args.d)
       ELSE /\ ret = ToBits(0, 32)
            /\ mem.q = Zero(W)
            /\ mem.r = Zero(W)

\* a divisor above 2^(W-1) divides the all-ones dividend once, and a zero
\* divisor has cleared non-zero outputs
C2_Witness ==
  \/ /\ Returned("div_mod_ct") /\ args.ty = "u64"
     /\ args.n = Ones(64) /\ args.d = BvAdd(TopBit(64), ToBits(1, 64))
     /\ mem.q = ToBits(1, 64) /\ mem.r = BvSub(TopBit(64), ToBits(2, 64))
  \/ /\ Returned("div_mod_ct") /\ args.d = Zero(Width(args.ty))
     /\ mem.q = Zero(Width(args.ty)) /\ mem.r = Zero(Width(args.ty))

\* C7: flat_div_mod_ct_u32 executes its loop body exactly 32 times and
\* flat_div_mod_ct_u64 exactly 64 times for every (n, d), d = 0 included.
C7_DivFixedIterations ==
  /\ Returned("div_mod_ct") => loc.iters = Width(args.ty)
  /\ (fn = "div_mod_ct" /\ pc = "loop") => loc.iters + loc.i + 1 = Width(args.ty)

\* the full 64 iterations were run for a zero divisor and a zero dividend
C7_Witness ==
  /\ Returned("div_mod_ct") /\ args.ty = "u64"
  /\ args.d = Zero(64) /\ args.n = Zero(64)
  /\ loc.iters = 64

(***************************************************************************)
(* Buffers.  A buffer is a tuple of words; the C element buf[i] is         *)
(* At(buf, i).  A loop's locals are a record; its field reads is the       *)
(* sequence of element addresses <<buffer, index>> the loop has read so    *)
(* far and its field iters counts the executions of the loop body.         *)
(***************************************************************************)
At(buf, i) == buf[i + 1]
\* the promotion of a narrow operand to int, and the (uint8_t) cast
P(x) == ZExt(x, 32)
U8(x) == Trunc(x, 8)
\* a conversion between unsigned types
Conv(x, W) == IF W <= Len(x) THEN Trunc(x, W) ELSE ZExt(x, W)
\* the value of an int that holds -1, 0 or 1
SInt(x) == IF x[32] = 1 THEN 0 - ToNat(BvSub(Zero(32), x)) ELSE ToNat(x)

(***************************************************************************)
(* Constant-time memory (byte): the scans.                                 *)
(***************************************************************************)
\* a loop condition that also stops at the first difference
flat_mem_eq_more_earlyexit(l, len) == l.i < len /\ l.diff = Zero(32)
\* i < len
flat_mem_eq_more(l, len) == l.i < len

\* diff |= (uint32_t)(a[i] ^ b[i])
flat_mem_eq_body(l, a, b) ==
  [i |-> l.i + 1,
   diff |-> BvOr(l.diff, BvXor(P(At(a, l.i)), P(At(b, l.i)))),
   reads |-> l.reads \o <<(<<"a", l.i>>), (<<"b", l.i>>)>>,
   iters |-> l.iters + 1]

RECURSIVE flat_mem_eq_loop(_, _, _, _)
flat_mem_eq_loop(l, a, b, len) ==
  IF flat_mem_eq_more(l, len) THEN flat_mem_eq_loop(flat_mem_eq_body(l, a, b), a, b, len)
  ELSE l

\* a return that forgets to project the mask to a bit
flat_mem_eq_returnmask(a, b, len) ==
  LET l == flat_mem_eq_loop([i |-> 0, diff |-> Zero(32), reads |-> <<>>, iters |-> 0],
                            a, b, len)
  IN [val |-> flat_mask_is_zero_u32(l.diff), loc |-> l]
flat_mem_eq(a, b, len) ==
  LET l == flat_mem_eq_loop([i |-> 0, diff |-> Zero(32), reads |-> <<>>, iters |-> 0],
                            a, b, len)
  IN [val |-> BvAnd(flat_mask_is_zero_u32(l.diff), ToBits(1, 32)), loc |-> l]

\* a body that lets every differing byte vote, not only the first
flat_mem_cmp_body_notake(l, a, b) ==
  LET ai == P(At(a, l.i))
      bi == P(At(b, l.i))
      m_lt == flat_mask_lt_u32(ai, bi)
      m_gt == flat_mask_lt_u32(bi, ai)
      m_ne == BvNot(flat_mask_eq_u32(ai, bi))
  IN [i |-> l.i + 1,
      lt |-> BvOr(l.lt, m_lt),
      gt |-> BvOr(l.gt, m_gt),
      seen |-> BvOr(l.seen, m_ne),
      reads |-> l.reads \o <<(<<"a", l.i>>), (<<"b", l.i>>)>>,
      iters |-> l.iters + 1]

\* the body of the loop of flat_mem_cmp
flat_mem_cmp_body(l, a, b) ==
  LET ai == P(At(a, l.i))
      bi == P(At(b, l.i))
      m_lt == flat_mask_lt_u32(ai, bi)
      m_gt == flat_mask_lt_u32(bi, ai)
      m_ne == BvNot(flat_mask_eq_u32(ai, bi))
      take == BvNot(l.seen)
  IN [i |-> l.i + 1,
      lt |-> BvOr(l.lt, BvAnd(take, m_lt)),
      gt |-> BvOr(l.gt, BvAnd(take, m_gt)),
      seen |-> BvOr(l.seen, BvAnd(take, m_ne)),
      reads |-> l.reads \o <<(<<"a", l.i>>), (<<"b", l.i>>)>>,
      iters |-> l.iters + 1]

RECURSIVE flat_mem_cmp_loop(_, _, _, _)
flat_mem_cmp_loop(l, a, b, len) ==
  IF l.i < len THEN flat_mem_cmp_loop(flat_mem_cmp_body(l, a, b), a, b, len)
  ELSE l

flat_mem_cmp(a, b, len) ==
  LET l == flat_mem_cmp_loop([i |-> 0, seen |-> Zero(32), lt |-> Zero(32), gt |-> Zero(32),
                              reads |-> <<>>, iters |-> 0], a, b, len)
  IN [val |-> SInt(BvSub(flat_mask_to_bit_u32(l.gt), flat_mask_to_bit_u32(l.lt))),
      loc |-> l]

\* Mask-returning equality (composable)
flat_memeq_mask_body(l, x, y) ==
  [i |-> l.i + 1,
   diff |-> BvOr(l.diff, BvXor(P(At(x, l.i)), P(At(y, l.i)))),
   reads |-> l.reads \o <<(<<"a", l.i>>), (<<"b", l.i>>)>>,
   iters |-> l.iters + 1]

RECURSIVE flat_memeq_mask_loop(_, _, _, _)
flat_memeq_mask_loop(l, x, y, n) ==
  IF l.i < n THEN flat_memeq_mask_loop(flat_memeq_mask_body(l, x, y), x, y, n)
  ELSE l

flat_memeq_mask(a, b, n) ==
  LET l == flat_memeq_mask_loop([i |-> 0, diff |-> Zero(32), reads |-> <<>>, iters |-> 0],
                                a, b, n)
  IN [val |-> flat_mask_is_zero_u32(l.diff), loc |-> l]

(***************************************************************************)
(* Lookup (u8/u16/u32/u64): CT scan with public bounds.                    *)
(***************************************************************************)
\* a body that compares the low 32 bits of the indices only
flat_lookup_body_trunc32(W, l, arr, idx) ==
  LET m == Conv(flat_mask_eq_u32(ToBits(l.i, 32), Trunc(idx, 32)), W)
  IN [i |-> l.i + 1,
      out |-> BvOr(BvAnd(At(arr, l.i), m), BvAnd(l.out, BvNot(m))),
      reads |-> l.reads \o <<(<<"arr", l.i>>)>>,
      iters |-> l.iters + 1]
\* out = (T)((arr[i] & m) | (out & (T)~m)) with m = (T)flat_mask_eq_sz(i, idx);
\* W is the width of T
flat_lookup_body(W, l, arr, idx) ==
  LET m == Conv(flat_mask_eq_sz(ToBits(l.i, SizeBits), idx), W)
  IN [i |-> l.i + 1,
      out |-> BvOr(BvAnd(At(arr, l.i), m), BvAnd(l.out, BvNot(m))),
      reads |-> l.reads \o <<(<<"arr", l.i>>)>>,
      iters |-> l.iters + 1]

RECURSIVE flat_lookup_loop(_, _, _, _, _)
flat_lookup_loop(W, l, arr, len, idx) ==
  IF l.i < len THEN flat_lookup_loop(W, flat_lookup_body(W, l, arr, idx), arr, len, idx)
  ELSE l

flat_lookup(W, arr, len, idx) ==
  LET l == flat_lookup_loop(W, [i |-> 0, out |-> Zero(W), reads |-> <<>>, iters |-> 0],
                            arr, len, idx)
  IN [val |-> l.out, loc |-> l]
flat_lookup_u8(arr, len, idx) == flat_lookup(8, arr, len, idx)
flat_lookup_u16(arr, len, idx) == flat_lookup(16, arr, len, idx)
flat_lookup_u32(arr, len, idx) == flat_lookup(32, arr, len, idx)
flat_lookup_u64(arr, len, idx) == flat_lookup(64, arr, len, idx)

(***************************************************************************)
(* Zero-padding scan (index of last non-zero + 1).                         *)
(***************************************************************************)
\* a body that takes every non-zero byte, seen or not
flat_zeropad_data_len_body_noseen(l, buf) ==
  LET x == At(buf, l.i - 1)
      nz_mask == U8(BvNot(P(flat_mask_is_zero_u8(x))))
      nz_bit == ZExt(BvAnd(P(nz_mask), ToBits(1, 32)), SizeBits)
  IN [i |-> l.i - 1,
      data_len |-> flat_select_sz(Conv(nz_bit, 32), ToBits(l.i, SizeBits), l.data_len),
      seen |-> BvOr(l.seen, nz_bit),
      reads |-> l.reads \o <<(<<"buf", l.i - 1>>)>>,
      iters |-> l.iters + 1]
\* the loop runs i = len, len-1, .., 1 and reads buf[i - 1]
flat_zeropad_data_len_body(l, buf) ==
  LET x == At(buf, l.i - 1)
      nz_mask == U8(BvNot(P(flat_mask_is_zero_u8(x))))
      nz_bit == ZExt(BvAnd(P(nz_mask), ToBits(1, 32)), SizeBits)
      trigger == BvAnd(nz_bit, BvNot(l.seen))
  IN [i |-> l.i - 1,
      data_len |-> flat_select_sz(Conv(trigger, 32), ToBits(l.i, SizeBits), l.data_len),
      seen |-> BvOr(l.seen, nz_bit),
      reads |-> l.reads \o <<(<<"buf", l.i - 1>>)>>,
      iters |-> l.iters + 1]

RECURSIVE flat_zeropad_data_len_loop(_, _)
flat_zeropad_data_len_loop(l, buf) ==
  IF l.i > 0 THEN flat_zeropad_data_len_loop(flat_zeropad_data_len_body(l, buf), buf)
  ELSE l

flat_zeropad_data_len(buf, len) ==
  LET l == flat_zeropad_data_len_loop([i |-> len, data_len |-> Zero(SizeBits),
                                       seen |-> Zero(SizeBits), reads |-> <<>>,
                                       iters |-> 0], buf)
  IN [val |-> l.data_len, loc |-> l]

(***************************************************************************)
(* Min on size_t, and the constant-time PKCS#7 unpad.  len and block are   *)
(* naturals below 2^31 here; they enter the arithmetic as size_t words.    *)
(***************************************************************************)
flat_min_sz(a, b) ==
  LET m == flat_mask_lt_sz(a, b)
  IN BvXor(b, BvAnd(BvXor(a, b), m))

\* C's a <= b and a >= b on unsigned operands of one width: the int 1 or 0
CLe(a, b) == IF ULt(b, a) THEN Zero(32) ELSE ToBits(1, 32)
CGe(a, b) == CLe(b, a)

\* if (len == 0 || block == 0)
flat_pkcs7_unpad_ct_reject(len, block) == len = 0 \/ block = 0

\* pad = buf[len - 1], ok1, diff = 0, maxchk = flat_min_sz(len, block), i = 0
flat_pkcs7_unpad_ct_entry(buf, len, block) ==
  LET pad == At(buf, len - 1)
  IN [pad |-> pad,
      ok1 |-> BvAnd(BvAnd(CGe(P(pad), ToBits(1, 32)),
                          CLe(P(pad), P(U8(ToBits(block, SizeBits))))),
                    CLe(P(pad), P(U8(ToBits(len, SizeBits))))),
      diff |-> Zero(32),
      maxchk |-> ToNat(flat_min_sz(ToBits(len, SizeBits), ToBits(block, SizeBits))),
      i |-> 0,
      reads |-> <<(<<"buf", len - 1>>)>>,
      iters |-> 0]

\* i < maxchk
flat_pkcs7_unpad_ct_more(l) == l.i < l.maxchk

\* the loop body
flat_pkcs7_unpad_ct_body(l, buf, len) ==
  LET in_window == U8(BvAnd(flat_mask_lt_sz(ToBits(l.i, SizeBits), ZExt(l.pad, SizeBits)),
                            ToBits(255, SizeBits)))
      b == At(buf, len - 1 - l.i)
  IN [l EXCEPT !.i = l.i + 1,
               !.diff = BvOr(l.diff, BvAnd(BvXor(P(b), P(l.pad)), P(in_window))),
               !.reads = l.reads \o <<(<<"buf", len - 1 - l.i>>)>>,
               !.iters = l.iters + 1]

\* an exit that stores len - pad without the select
flat_pkcs7_unpad_ct_exit_unselected(l, len) ==
  LET ok2 == BvAnd(flat_mask_is_zero_u32(l.diff), ToBits(1, 32))
      ok == BvAnd(l.ok1, ok2)
      data_len == BvSub(ToBits(len, SizeBits), ZExt(l.pad, SizeBits))
  IN [ok |-> ok, data_len_out |-> data_len]
\* after the loop: ok, and the value stored through data_len_out
flat_pkcs7_unpad_ct_exit(l, len) ==
  LET ok2 == BvAnd(flat_mask_is_zero_u32(l.diff), ToBits(1, 32))
      ok == BvAnd(l.ok1, ok2)
      data_len == BvSub(ToBits(len, SizeBits), ZExt(l.pad, SizeBits))
  IN [ok |-> ok, data_len_out |-> flat_select_sz(ok, data_len, Zero(SizeBits))]

(***************************************************************************)
(* Calls of the scan primitives.                                           *)
(***************************************************************************)
\* the bytes of the compared and scanned buffers: 0x00, 0x01, 0x80, 0xFF
ByteVals == {Zero(8), ToBits(1, 8), TopBit(8), Ones(8)}
Bufs(n) == {Vec(n, LAMBDA k : f[k]) : f \in [1..n -> ByteVals]}
Lens == 0..MaxLen

LookupTypes == {"u8", "u16", "u32", "u64"}
\* table elements, and indices: in range, just out of range, 2^32 (equal to
\* index 0 in its low half), 2^63 and 2^64 - 1
Elems(W) == {ToBits(1, W), Ones(W)}
Tables(W, n) == {Vec(n, LAMBDA k : f[k]) : f \in [1..n -> Elems(W)]}
Idxs ==
  {ToBits(k, SizeBits) : k \in 0..(MaxLen + 1)}
    \cup {Vec(SizeBits, LAMBDA i : IF i = 33 THEN 1 ELSE 0), TopBit(SizeBits),
          Ones(SizeBits)}

\* PKCS#7 buffers: len - c bytes fill, then c bytes p
PkBuf(len, fill, p, c) ==
  Vec(len, LAMBDA k : IF k > len - c THEN ToBits(p, 8) ELSE ToBits(fill, 8))
PkShapes == {<<0, 0>>, <<0, 16>>, <<1, 0>>, <<1, 1>>, <<1, 16>>, <<2, 1>>, <<2, 2>>,
             <<3, 2>>, <<3, 16>>, <<16, 16>>, <<17, 16>>, <<32, 8>>, <<255, 16>>,
             <<256, 16>>, <<257, 16>>, <<272, 16>>, <<256, 255>>, <<3, 256>>,
             <<3, 258>>, <<258, 258>>}
PkPads == {0, 1, 2, 3, 16, 17, 255}
PkBufs(len) ==
  IF len = 0 THEN {<<>>}
  ELSE {PkBuf(len, fill, p, c) :
          fill \in (IF len > 32 THEN {65} ELSE {2, 65}), p \in PkPads,
          c \in {c \in {1, 2, 15, 16, 17, 254, 255} : c <= len}}

ScanFns == {"mem_eq", "mem_cmp", "memeq_mask", "zeropad_data_len", "lookup",
            "pkcs7_unpad_ct"}

ScanArgs(f) ==
  CASE f \in {"mem_eq", "mem_cmp", "memeq_mask"} ->
         UNION {[a : Bufs(n), b : Bufs(n), len : {n}] : n \in Lens}
    [] f = "zeropad_data_len" -> UNION {[buf : Bufs(n), len : {n}] : n \in Lens}
    [] f = "lookup" ->
         UNION {[ty : {t}, arr : Tables(Width(t), n), len : {n}, idx : Idxs]
                : t \in LookupTypes, n \in Lens}
    [] f = "pkcs7_unpad_ct" ->
         UNION {[buf : PkBufs(sh[1]), len : {sh[1]}, block : {sh[2]}] : sh \in PkShapes}

InitScan ==
  /\ pc = "call"
  /\ fn \in ScanFns
  /\ args \in ScanArgs(fn)
  /\ mem = IF fn = "pkcs7_unpad_ct" THEN [data_len_out |-> Ones(SizeBits)] ELSE <<>>
  /\ loc = <<>>
  /\ ret = <<>>

\* a call that runs its whole loop: the locals it ends with, the value returned
Finish(r) ==
  /\ pc' = "done"
  /\ loc' = r.loc
  /\ ret' = r.val
  /\ UNCHANGED <<fn, args, mem>>

MemEq ==
  /\ pc = "call" /\ fn = "mem_eq"
  /\ Finish(flat_mem_eq(args.a, args.b, args.len))

MemCmp ==
  /\ pc = "call" /\ fn = "mem_cmp"
  /\ Finish(flat_mem_cmp(args.a, args.b, args.len))

MemeqMask ==
  /\ pc = "call" /\ fn = "memeq_mask"
  /\ Finish(flat_memeq_mask(args.a, args.b, args.len))

ZeropadDataLen ==
  /\ pc = "call" /\ fn = "zeropad_data_len"
  /\ Finish(flat_zeropad_data_len(args.buf, args.len))

Lookup ==
  /\ pc = "call" /\ fn = "lookup"
  /\ Finish(CASE args.ty = "u8" -> flat_lookup_u8(args.arr, args.len, args.idx)
              [] args.ty = "u16" -> flat_lookup_u16(args.arr, args.len, args.idx)
              [] args.ty = "u32" -> flat_lookup_u32(args.arr, args.len, args.idx)
              [] args.ty = "u64" -> flat_lookup_u64(args.arr, args.len, args.idx))

\* the early return, or the statements before the loop
PkcsEnter ==
  /\ pc = "call" /\ fn = "pkcs7_unpad_ct"
  /\ IF flat_pkcs7_unpad_ct_reject(args.len, args.block)
     THEN /\ mem' = [data_len_out |-> Zero(SizeBits)]
          /\ ret' = ToBits(0, 32)
          /\ loc' = [reads |-> <<>>, iters |-> 0]
          /\ pc' = "done"
     ELSE /\ loc' = flat_pkcs7_unpad_ct_entry(args.buf, args.len, args.block)
          /\ pc' = "loop"
          /\ UNCHANGED <<mem, ret>>
  /\ UNCHANGED <<fn, args>>

PkcsIter ==
  /\ pc = "loop" /\ fn = "pkcs7_unpad_ct"
  /\ flat_pkcs7_unpad_ct_more(loc)
  /\ loc' = flat_pkcs7_unpad_ct_body(loc, args.buf, args.len)
  /\ UNCHANGED <<pc, fn, args, mem, ret>>

PkcsExit ==
  /\ pc = "loop" /\ fn = "pkcs7_unpad_ct"
  /\ ~flat_pkcs7_unpad_ct_more(loc)
  /\ LET out == flat_pkcs7_unpad_ct_exit(loc, args.len)
     IN /\ mem' = [data_len_out |-> out.data_len_out]
        /\ ret' = out.ok
  /\ pc' = "done"
  /\ UNCHANGED <<fn, args, loc>>

NextScan ==
  \/ MemEq
  \/ MemCmp
  \/ MemeqMask
  \/ ZeropadDataLen
  \/ Lookup
  \/ PkcsEnter
  \/ PkcsIter
  \/ PkcsExit

SpecScan == InitScan /\ [][NextScan]_vars

(***************************************************************************)
(* Properties of the scan primitives.                                      *)
(***************************************************************************)
\* the sign of memcmp(a, b, n): decided at the first index where they differ
MemcmpSign(a, b, n) ==
  IF \A i \in 0..(n - 1) : At(a, i) = At(b, i) THEN 0
  ELSE LET i == CHOOSE i \in 0..(n - 1) :
                  /\ At(a, i) # At(b, i)
                  /\ \A j \in 0..(i - 1) : At(a, j) = At(b, j)
       IN IF ULt(At(a, i), At(b, i)) THEN 0 - 1 ELSE 1

\* the buffer ends with k copies of the byte k, 1 <= k <= block, k <= n
PadOf(buf, n) == ToNat(At(buf, n - 1))
ValidPad(buf, n, block) ==
  LET k == PadOf(buf, n)
  IN /\ 1 <= k /\ k <= block /\ k <= n
     /\ \A j \in (n - k)..(n - 1) : At(buf, j) = ToBits(k, 8)

\* C1: for every n >= 1 (n >= 256 included) and 1 <= block <= 255,
\* flat_pkcs7_unpad_ct returns ok=1 iff the buffer ends with k copies of the
\* byte k, 1 <= k <= block, k <= n; out_len = n - k when ok=1, 0 when ok=0.
C1_Pkcs7UnpadContract ==
  (Returned("pkcs7_unpad_ct") /\ args.len >= 1 /\ args.block \in 1..255) =>
    IF ValidPad(args.buf, args.len, args.block)
    THEN /\ ret = ToBits(1, 32)
         /\ mem.data_len_out = ToBits(args.len - PadOf(args.buf, args.len), SizeBits)
    ELSE /\ ret = ToBits(0, 32)
         /\ mem.data_len_out = Zero(SizeBits)

\* C29: for every len >= 1 and block >= 1, block > 255 and len > 255
\* included, flat_pkcs7_unpad_ct returns ok=1 only if the last byte pad has
\* 1 <= pad <= min(block, len) and the last pad bytes all equal pad; the
\* value stored through data_len_out is <= len, and is 0 whenever ok=0.
C29_Pkcs7NeverAcceptsInvalid ==
  (Returned("pkcs7_unpad_ct") /\ args.len >= 1 /\ args.block >= 1) =>
    /\ ret \in {ToBits(0, 32), ToBits(1, 32)}
    /\ ret = ToBits(1, 32) => ValidPad(args.buf, args.len, args.block)
    /\ ~ULt(ToBits(args.len, SizeBits), mem.data_len_out)
    /\ ret = ToBits(0, 32) => mem.data_len_out = Zero(SizeBits)

\* block = len = 258, both 2 as uint8_t: a padding of two bytes 2 is accepted
C29_Witness ==
  /\ Returned("pkcs7_unpad_ct")
  /\ args.len > 255 /\ args.block > 255
  /\ PadOf(args.buf, args.len) = 2
  /\ ret = ToBits(1, 32)
  /\ mem.data_len_out = ToBits(args.len - 2, SizeBits)

\* C3: flat_mem_cmp(a, b, n) is exactly -1, 0 or +1, the sign of the
\* lexicographic comparison decided at the first differing index (0 if none).
C3_MemCmpIsMemcmpSign ==
  Returned("mem_cmp") =>
    /\ ret \in {0 - 1, 0, 1}
    /\ ret = MemcmpSign(args.a, args.b, args.len)

\* a is smaller at index 0 and larger at index 1: the first difference wins
C3_Witness ==
  /\ Returned("mem_cmp")
  /\ args.len >= 2
  /\ ULt(At(args.a, 0), At(args.b, 0))
  /\ ULt(At(args.b, 1), At(args.a, 1))
  /\ ret = 0 - 1

\* C4: flat_mem_eq returns 1 if a[i] = b[i] for every i < n and 0 otherwise;
\* flat_memeq_mask returns the 32-bit all-ones mask in the first case and 0 in
\* the second, never a partial mask.
C4_MemEqAndMask ==
  /\ Returned("mem_eq") =>
       ret = IF \A i \in 0..(args.len - 1) : At(args.a, i) = At(args.b, i)
             THEN ToBits(1, 32) ELSE ToBits(0, 32)
  /\ Returned("memeq_mask") =>
       ret = IF \A i \in 0..(args.len - 1) : At(args.a, i) = At(args.b, i)
             THEN Ones(32) ELSE Zero(32)

\* buffers that differ only in the top bit of their last byte give the zero mask
C4_Witness ==
  /\ Returned("memeq_mask")
  /\ args.len >= 2
  /\ At(args.a, 0) = At(args.b, 0)
  /\ At(args.a, args.len - 1) = TopBit(8)
  /\ At(args.b, args.len - 1) = Zero(8)
  /\ ret = Zero(32)

\* the address streams that the public lengths alone determine
PairSweep(n) == Vec(2 * n, LAMBDA k : <<IF k % 2 = 1 THEN "a" ELSE "b", (k - 1) \div 2>>)
UpSweep(name, n) == Vec(n, LAMBDA k : <<name, k - 1>>)
DownSweep(name, n) == Vec(n, LAMBDA k : <<name, n - k>>)
MinNat(x, y) == IF x < y THEN x ELSE y
\* the last m bytes of a buffer of len bytes, from the end backwards
PkcsSweep(len, m) == Vec(m, LAMBDA k : <<"buf", len - k>>)

\* C5: in flat_mem_eq, flat_mem_cmp, flat_memeq_mask, flat_zeropad_data_len,
\* flat_lookup_W and flat_pkcs7_unpad_ct the number of loop iterations and the
\* sequence of element addresses read are functions of the public lengths
\* (n, len, block) alone, so two runs that differ in contents or in the lookup
\* index agree on both; lookup reads arr[0..len) once each, in order.
C5_ReadsDependOnLengthsOnly ==
  /\ (Returned("mem_eq") \/ Returned("mem_cmp") \/ Returned("memeq_mask")) =>
       /\ loc.iters = args.len
       /\ loc.reads = PairSweep(args.len)
  /\ Returned("zeropad_data_len") =>
       /\ loc.iters = args.len
       /\ loc.reads = DownSweep("buf", args.len)
  /\ Returned("lookup") =>
       /\ loc.iters = args.len
       /\ loc.reads = UpSweep("arr", args.len)
  /\ Returned("pkcs7_unpad_ct") =>
       IF args.len = 0 \/ args.block = 0
       THEN loc.iters = 0 /\ loc.reads = <<>>
       ELSE /\ loc.iters = MinNat(args.len, args.block)
            /\ loc.reads = <<(<<"buf", args.len - 1>>)>>
                             \o PkcsSweep(args.len, MinNat(args.len, args.block))

\* buffers that differ in their first byte are still read to the end
C5_Witness ==
  /\ Returned("mem_eq")
  /\ args.len = MaxLen
  /\ At(args.a, 0) # At(args.b, 0)
  /\ loc.iters = MaxLen
  /\ Len(loc.reads) = 2 * MaxLen

(***************************************************************************)
(* Constant-time memory (byte): the conditional writes.  A loop's locals   *)
(* hold the memory it works on (l.mem, one tuple per buffer) and l.writes, *)
(* the sequence of stores <<buffer, index, value>> done so far.            *)
(***************************************************************************)
Put(buf, i, v) == [buf EXCEPT ![i + 1] = v]

\* dst[i] ^= (uint8_t)(src[i] & m)
flat_memxor_when_body(l, m) ==
  LET v == U8(BvXor(P(At(l.mem.dst, l.i)), P(U8(BvAnd(P(At(l.mem.src, l.i)), P(m))))))
  IN [i |-> l.i + 1,
      mem |-> [l.mem EXCEPT !.dst = Put(l.mem.dst, l.i, v)],
      writes |-> l.writes \o <<(<<"dst", l.i, v>>)>>,
      iters |-> l.iters + 1]

RECURSIVE flat_memxor_when_loop(_, _, _)
flat_memxor_when_loop(l, m, len) ==
  IF l.i < len THEN flat_memxor_when_loop(flat_memxor_when_body(l, m), m, len) ELSE l

\* a mask taken from "cond is non-zero" instead of the low bit
flat_memxor_when_anybit(cond, dst, src, len) ==
  flat_memxor_when_loop([i |-> 0, mem |-> [dst |-> dst, src |-> src], writes |-> <<>>,
                         iters |-> 0],
                        IF cond = Zero(32) THEN Zero(8) ELSE Ones(8), len)
flat_memxor_when(cond, dst, src, len) ==
  flat_memxor_when_loop([i |-> 0, mem |-> [dst |-> dst, src |-> src], writes |-> <<>>,
                         iters |-> 0], flat_mask_from_bit_u8(cond), len)

\* a body that stores only when the mask is set
flat_memcpy_when_body_branch(l, m) ==
  LET v == At(l.mem.src, l.i)
  IN IF m = Zero(8) THEN [l EXCEPT !.i = l.i + 1, !.iters = l.iters + 1]
     ELSE [i |-> l.i + 1,
           mem |-> [l.mem EXCEPT !.dst = Put(l.mem.dst, l.i, v)],
           writes |-> l.writes \o <<(<<"dst", l.i, v>>)>>,
           iters |-> l.iters + 1]
\* v = (uint8_t)((src[i] & m) | (dst[i] & (uint8_t)~m)); dst[i] = v
flat_memcpy_when_body(l, m) ==
  LET v == U8(BvOr(BvAnd(P(At(l.mem.src, l.i)), P(m)),
                   BvAnd(P(At(l.mem.dst, l.i)), P(U8(BvNot(P(m)))))))
  IN [i |-> l.i + 1,
      mem |-> [l.mem EXCEPT !.dst = Put(l.mem.dst, l.i, v)],
      writes |-> l.writes \o <<(<<"dst", l.i, v>>)>>,
      iters |-> l.iters + 1]

RECURSIVE flat_memcpy_when_loop(_, _, _)
flat_memcpy_when_loop(l, m, len) ==
  IF l.i < len THEN flat_memcpy_when_loop(flat_memcpy_when_body(l, m), m, len) ELSE l

flat_memcpy_when(cond, dst, src, len) ==
  flat_memcpy_when_loop([i |-> 0, mem |-> [dst |-> dst, src |-> src], writes |-> <<>>,
                         iters |-> 0], flat_mask_from_bit_u8(cond), len)

\* t = (uint8_t)((a[i] ^ b[i]) & m); a[i] ^= t; b[i] ^= t
flat_memswap_when_body(l, m) ==
  LET t == U8(BvAnd(BvXor(P(At(l.mem.a, l.i)), P(At(l.mem.b, l.i))), P(m)))
      va == U8(BvXor(P(At(l.mem.a, l.i)), P(t)))
      vb == U8(BvXor(P(At(l.mem.b, l.i)), P(t)))
  IN [i |-> l.i + 1,
      mem |-> [a |-> Put(l.mem.a, l.i, va), b |-> Put(l.mem.b, l.i, vb)],
      writes |-> l.writes \o <<(<<"a", l.i, va>>), (<<"b", l.i, vb>>)>>,
      iters |-> l.iters + 1]

RECURSIVE flat_memswap_when_loop(_, _, _)
flat_memswap_when_loop(l, m, len) ==
  IF l.i < len THEN flat_memswap_when_loop(flat_memswap_when_body(l, m), m, len) ELSE l

flat_memswap_when(cond, a, b, len) ==
  flat_memswap_when_loop([i |-> 0, mem |-> [a |-> a, b |-> b], writes |-> <<>>,
                          iters |-> 0], flat_mask_from_bit_u8(cond), len)

\* b[i] &= (uint8_t)~m
flat_memwipe_when_body(l, m) ==
  LET v == U8(BvAnd(P(At(l.mem.p, l.i)), P(U8(BvNot(P(m))))))
  IN [i |-> l.i + 1,
      mem |-> [p |-> Put(l.mem.p, l.i, v)],
      writes |-> l.writes \o <<(<<"p", l.i, v>>)>>,
      iters |-> l.iters + 1]

RECURSIVE flat_memwipe_when_loop(_, _, _)
flat_memwipe_when_loop(l, m, n) ==
  IF l.i < n THEN flat_memwipe_when_loop(flat_memwipe_when_body(l, m), m, n) ELSE l

flat_memwipe_when(cond, p, n) ==
  flat_memwipe_when_loop([i |-> 0, mem |-> [p |-> p], writes |-> <<>>, iters |-> 0],
                         flat_mask_from_bit_u8(cond), n)

(***************************************************************************)
(* Store (u8/u16/u32/u64): CT scan with public bounds.                     *)
(***************************************************************************)
\* a body that compares the low 32 bits of the indices only, in the store
flat_store_at_body_trunc32(W, l, idx, value) ==
  LET m == Conv(flat_mask_eq_u32(ToBits(l.i, 32), Trunc(idx, 32)), W)
      v == BvOr(BvAnd(value, m), BvAnd(At(l.mem.arr, l.i), BvNot(m)))
  IN [i |-> l.i + 1,
      mem |-> [arr |-> Put(l.mem.arr, l.i, v)],
      writes |-> l.writes \o <<(<<"arr", l.i, v>>)>>,
      iters |-> l.iters + 1]
\* arr[i] = (T)((value & m) | (arr[i] & (T)~m)) with m = (T)flat_mask_eq_sz(i, idx)
flat_store_at_body(W, l, idx, value) ==
  LET m == Conv(flat_mask_eq_sz(ToBits(l.i, SizeBits), idx), W)
      v == BvOr(BvAnd(value, m), BvAnd(At(l.mem.arr, l.i), BvNot(m)))
  IN [i |-> l.i + 1,
      mem |-> [arr |-> Put(l.mem.arr, l.i, v)],
      writes |-> l.writes \o <<(<<"arr", l.i, v>>)>>,
      iters |-> l.iters + 1]

RECURSIVE flat_store_at_loop(_, _, _, _, _)
flat_store_at_loop(W, l, len, idx, value) ==
  IF l.i < len THEN flat_store_at_loop(W, flat_store_at_body(W, l, idx, value), len, idx, value)
  ELSE l

flat_store_at(W, arr, len, idx, value) ==
  flat_store_at_loop(W, [i |-> 0, mem |-> [arr |-> arr], writes |-> <<>>, iters |-> 0],
                     len, idx, value)
flat_store_at_u8(arr, len, idx, value) == flat_store_at(8, arr, len, idx, value)
flat_store_at_u16(arr, len, idx, value) == flat_store_at(16, arr, len, idx, value)
flat_store_at_u32(arr, len, idx, value) == flat_store_at(32, arr, len, idx, value)
flat_store_at_u64(arr, len, idx, value) == flat_store_at(64, arr, len, idx, value)

(***************************************************************************)
(* Calls of the conditional writes.                                        *)
(***************************************************************************)
\* the bytes of the written buffers: 0x01, 0xAA, 0xFF
MemVals == {ToBits(1, 8), Vec(8, LAMBDA i : (i + 1) % 2), Ones(8)}
MemBufs(n) == {Vec(n, LAMBDA k : f[k]) : f \in [1..n -> MemVals]}
\* cond: 0, 1, 2, 3, 2^31, 2^32 - 2, 2^32 - 1
MemConds == {ToBits(k, 32) : k \in 0..3}
              \cup {TopBit(32), BvSub(Ones(32), ToBits(1, 32)), Ones(32)}

MemFns == {"memxor_when", "memcpy_when", "memswap_when", "memwipe_when", "store_at"}

MemArgs(f) ==
  CASE f \in {"memxor_when", "memcpy_when"} ->
         UNION {[cond : MemConds, dst : MemBufs(n), src : MemBufs(n), len : {n}] : n \in Lens}
    [] f = "memswap_when" ->
         UNION {[cond : MemConds, a : MemBufs(n), b : MemBufs(n), len : {n}] : n \in Lens}
    [] f = "memwipe_when" ->
         UNION {[cond : MemConds, p : MemBufs(n), len : {n}] : n \in Lens}
    [] f = "store_at" ->
         UNION {[ty : {t}, arr : Tables(Width(t), n), len : {n}, idx : Idxs,
                 value : {Vec(Width(t), LAMBDA i : i % 2)}]
                : t \in LookupTypes, n \in Lens}

\* the buffers as the caller passes them
MemOf(f, a) ==
  CASE f \in {"memxor_when", "memcpy_when"} -> [dst |-> a.dst, src |-> a.src]
    [] f = "memswap_when" -> [a |-> a.a, b |-> a.b]
    [] f = "memwipe_when" -> [p |-> a.p]
    [] f = "store_at" -> [arr |-> a.arr]

InitMem ==
  /\ pc = "call"
  /\ fn \in MemFns
  /\ args \in MemArgs(fn)
  /\ mem = MemOf(fn, args)
  /\ loc = <<>>
  /\ ret = <<>>

\* a void call that runs its whole loop: the memory and the locals it ends with
FinishVoid(l) ==
  /\ pc' = "done"
  /\ mem' = l.mem
  /\ loc' = [i |-> l.i, writes |-> l.writes, iters |-> l.iters]
  /\ UNCHANGED <<fn, args, ret>>

MemxorWhen ==
  /\ pc = "call" /\ fn = "memxor_when"
  /\ FinishVoid(flat_memxor_when(args.cond, mem.dst, mem.src, args.len))

MemcpyWhen ==
  /\ pc = "call" /\ fn = "memcpy_when"
  /\ FinishVoid(flat_memcpy_when(args.cond, mem.dst, mem.src, args.len))

MemswapWhen ==
  /\ pc = "call" /\ fn = "memswap_when"
  /\ FinishVoid(flat_memswap_when(args.cond, mem.a, mem.b, args.len))

MemwipeWhen ==
  /\ pc = "call" /\ fn = "memwipe_when"
  /\ FinishVoid(flat_memwipe_when(args.cond, mem.p, args.len))

StoreAt ==
  /\ pc = "call" /\ fn = "store_at"
  /\ FinishVoid(CASE args.ty = "u8" -> flat_store_at_u8(mem.arr, args.len, args.idx, args.value)
                  [] args.ty = "u16" -> flat_store_at_u16(mem.arr, args.len, args.idx, args.value)
                  [] args.ty = "u32" -> flat_store_at_u32(mem.arr, args.len, args.idx, args.value)
                  [] args.ty = "u64" -> flat_store_at_u64(mem.arr, args.len, args.idx, args.value))

\* the flat_lookup_W that follows a flat_store_at_W, with the same arr, len, idx
LookupAfterStore ==
  /\ pc = "done" /\ fn = "store_at"
  /\ pc' = "looked"
  /\ ret' = (CASE args.ty = "u8" -> flat_lookup_u8(mem.arr, args.len, args.idx)
               [] args.ty = "u16" -> flat_lookup_u16(mem.arr, args.len, args.idx)
               [] args.ty = "u32" -> flat_lookup_u32(mem.arr, args.len, args.idx)
               [] args.ty = "u64" -> flat_lookup_u64(mem.arr, args.len, args.idx)).val
  /\ UNCHANGED <<fn, args, mem, loc>>

NextMem ==
  \/ MemxorWhen
  \/ MemcpyWhen
  \/ MemswapWhen
  \/ MemwipeWhen
  \/ StoreAt
  \/ LookupAfterStore

SpecMem == InitMem /\ [][NextMem]_vars

(***************************************************************************)
(* Properties of the conditional writes.                                   *)
(***************************************************************************)
\* the addresses of a sequence of stores
Addrs(ws) == Vec(Len(ws), LAMBDA k : <<ws[k][1], ws[k][2]>>)
\* every store wrote the value the element held before the call
Rewrites(ws, before) ==
  \A k \in 1..Len(ws) : ws[k][3] = At(before[ws[k][1]], ws[k][2])

\* C6: flat_memcpy_when, flat_memswap_when, flat_memxor_when and
\* flat_store_at_W store to every element 0..n-1 of their destination
\* buffer(s) exactly once, in an order the length alone determines (the same
\* for cond = 0 and cond = 1, and for every idx); with cond & 1 = 0 every
\* value stored is the value the element held before the call, and store_at
\* stores the old value to every element other than idx.
C6_WritesAreUnconditional ==
  /\ (Returned("memxor_when") \/ Returned("memcpy_when")) =>
       /\ Addrs(loc.writes) = UpSweep("dst", args.len)
       /\ args.cond[1] = 0 => Rewrites(loc.writes, MemOf(fn, args))
  /\ Returned("memswap_when") =>
       /\ Addrs(loc.writes) = PairSweep(args.len)
       /\ args.cond[1] = 0 => Rewrites(loc.writes, MemOf(fn, args))
  /\ Returned("store_at") =>
       /\ Addrs(loc.writes) = UpSweep("arr", args.len)
       /\ \A k \in 1..Len(loc.writes) :
            ToBits(loc.writes[k][2], SizeBits) # args.idx
              => loc.writes[k][3] = At(args.arr, loc.writes[k][2])

\* cond = 2 (low bit clear, a high bit set): every byte of dst was stored
\* again with its own value although src differs
C6_Witness ==
  /\ Returned("memcpy_when")
  /\ args.cond = ToBits(2, 32)
  /\ args.len = MaxLen
  /\ \A i \in 0..(MaxLen - 1) : At(args.dst, i) # At(args.src, i)
  /\ Len(loc.writes) = MaxLen
  /\ mem.dst = args.dst

\* cond & 1, as an unsigned
LowBit(cond) == ToBits(cond[1], 32)

\* C11: for every cond, higher bits included, flat_memxor_when,
\* flat_memcpy_when, flat_memswap_when and flat_memwipe_when leave the buffers
\* exactly as the same call with cond & 1 leaves them; with cond & 1 = 1
\* memxor_when leaves dst[i] = dst[i] XOR src[i] and memwipe_when leaves all n
\* bytes zero; with cond & 1 = 0 every buffer is as it was before the call.
C11_OnlyLowBitOfCond ==
  /\ Returned("memxor_when") =>
       /\ mem = flat_memxor_when(LowBit(args.cond), args.dst, args.src, args.len).mem
       /\ args.cond[1] = 1 =>
            /\ \A i \in 0..(args.len - 1) :
                 At(mem.dst, i) = BvXor(At(args.dst, i), At(args.src, i))
            /\ mem.src = args.src
  /\ Returned("memcpy_when") =>
       mem = flat_memcpy_when(LowBit(args.cond), args.dst, args.src, args.len).mem
  /\ Returned("memswap_when") =>
       mem = flat_memswap_when(LowBit(args.cond), args.a, args.b, args.len).mem
  /\ Returned("memwipe_when") =>
       /\ mem = flat_memwipe_when(LowBit(args.cond), args.p, args.len).mem
       /\ args.cond[1] = 1 => \A i \in 0..(args.len - 1) : At(mem.p, i) = Zero(8)
  /\ (pc = "done" /\ fn \in {"memxor_when", "memcpy_when", "memswap_when", "memwipe_when"}
        /\ args.cond[1] = 0) => mem = MemOf(fn, args)

\* cond = 2^32 - 2 (every bit but the low one): non-zero bytes were not wiped
C11_Witness ==
  /\ Returned("memwipe_when")
  /\ args.cond = BvSub(Ones(32), ToBits(1, 32))
  /\ args.len = MaxLen
  /\ \A i \in 0..(MaxLen - 1) : At(mem.p, i) = Ones(8)
  /\ Len(loc.writes) = MaxLen

(***************************************************************************)
(* flat_memxor, and the typed memory (u16/u32/u64) & conditionals.  W is   *)
(* the element width; Prom is the integer promotion of an operand (to int  *)
(* below 32 bits, none from 32 bits on) and Conv the cast, or the store,   *)
(* back to the element type.                                               *)
(***************************************************************************)
Prom(x) == IF Len(x) < 32 THEN ZExt(x, 32) ELSE x

\* a body that ORs the source in
flat_memxor_body_or(W, l) ==
  LET v == Conv(BvOr(Prom(At(l.mem.dst, l.i)), Prom(At(l.mem.src, l.i))), W)
  IN [i |-> l.i + 1,
      mem |-> [l.mem EXCEPT !.dst = Put(l.mem.dst, l.i, v)],
      writes |-> l.writes \o <<(<<"dst", l.i, v>>)>>,
      iters |-> l.iters + 1]
\* dst[i] ^= src[i]
flat_memxor_body(W, l) ==
  LET v == Conv(BvXor(Prom(At(l.mem.dst, l.i)), Prom(At(l.mem.src, l.i))), W)
  IN [i |-> l.i + 1,
      mem |-> [l.mem EXCEPT !.dst = Put(l.mem.dst, l.i, v)],
      writes |-> l.writes \o <<(<<"dst", l.i, v>>)>>,
      iters |-> l.iters + 1]

RECURSIVE flat_memxor_loop(_, _, _)
flat_memxor_loop(W, l, len) ==
  IF l.i < len THEN flat_memxor_loop(W, flat_memxor_body(W, l), len) ELSE l

flat_memxor_start(dst, src) ==
  [i |-> 0, mem |-> [dst |-> dst, src |-> src], writes |-> <<>>, iters |-> 0]
flat_memxor(dst, src, len) == flat_memxor_loop(8, flat_memxor_start(dst, src), len)
flat_memxor_u16(dst, src, words) == flat_memxor_loop(16, flat_memxor_start(dst, src), words)
flat_memxor_u32(dst, src, words) == flat_memxor_loop(32, flat_memxor_start(dst, src), words)
flat_memxor_u64(dst, src, words) == flat_memxor_loop(64, flat_memxor_start(dst, src), words)

\* a body that keeps the bits of dst whatever the mask
flat_memcpy_when_word_body_keep(W, l, m) ==
  LET v == Conv(BvOr(BvAnd(Prom(At(l.mem.src, l.i)), Prom(m)), Prom(At(l.mem.dst, l.i))), W)
  IN [i |-> l.i + 1,
      mem |-> [l.mem EXCEPT !.dst = Put(l.mem.dst, l.i, v)],
      writes |-> l.writes \o <<(<<"dst", l.i, v>>)>>,
      iters |-> l.iters + 1]
\* v = (T)((src[i] & m) | (dst[i] & (T)~m)); dst[i] = v
flat_memcpy_when_word_body(W, l, m) ==
  LET v == Conv(BvOr(BvAnd(Prom(At(l.mem.src, l.i)), Prom(m)),
                     BvAnd(Prom(At(l.mem.dst, l.i)), Prom(Conv(BvNot(Prom(m)), W)))), W)
  IN [i |-> l.i + 1,
      mem |-> [l.mem EXCEPT !.dst = Put(l.mem.dst, l.i, v)],
      writes |-> l.writes \o <<(<<"dst", l.i, v>>)>>,
      iters |-> l.iters + 1]

RECURSIVE flat_memcpy_when_word_loop(_, _, _, _)
flat_memcpy_when_word_loop(W, l, m, words) ==
  IF l.i < words
  THEN flat_memcpy_when_word_loop(W, flat_memcpy_when_word_body(W, l, m), m, words)
  ELSE l

flat_memcpy_when_u16(cond, dst, src, words) ==
  flat_memcpy_when_word_loop(16, flat_memxor_start(dst, src), flat_mask_from_bit_u16(cond), words)
flat_memcpy_when_u32(cond, dst, src, words) ==
  flat_memcpy_when_word_loop(32, flat_memxor_start(dst, src), flat_mask_from_bit_u32(cond), words)
flat_memcpy_when_u64(cond, dst, src, words) ==
  flat_memcpy_when_word_loop(64, flat_memxor_start(dst, src), flat_mask_from_bit_u64(cond), words)

\* a body whose t ignores the mask
flat_memswap_when_word_body_nomask(W, l, m) ==
  LET t == Conv(BvXor(Prom(At(l.mem.a, l.i)), Prom(At(l.mem.b, l.i))), W)
      va == Conv(BvXor(Prom(At(l.mem.a, l.i)), Prom(t)), W)
      vb == Conv(BvXor(Prom(At(l.mem.b, l.i)), Prom(t)), W)
  IN [i |-> l.i + 1,
      mem |-> [a |-> Put(l.mem.a, l.i, va), b |-> Put(l.mem.b, l.i, vb)],
      writes |-> l.writes \o <<(<<"a", l.i, va>>), (<<"b", l.i, vb>>)>>,
      iters |-> l.iters + 1]
\* t = (T)((a[i] ^ b[i]) & m); a[i] ^= t; b[i] ^= t
flat_memswap_when_word_body(W, l, m) ==
  LET t == Conv(BvAnd(BvXor(Prom(At(l.mem.a, l.i)), Prom(At(l.mem.b, l.i))), Prom(m)), W)
      va == Conv(BvXor(Prom(At(l.mem.a, l.i)), Prom(t)), W)
      vb == Conv(BvXor(Prom(At(l.mem.b, l.i)), Prom(t)), W)
  IN [i |-> l.i + 1,
      mem |-> [a |-> Put(l.mem.a, l.i, va), b |-> Put(l.mem.b, l.i, vb)],
      writes |-> l.writes \o <<(<<"a", l.i, va>>), (<<"b", l.i, vb>>)>>,
      iters |-> l.iters + 1]

RECURSIVE flat_memswap_when_word_loop(_, _, _, _)
flat_memswap_when_word_loop(W, l, m, words) ==
  IF l.i < words
  THEN flat_memswap_when_word_loop(W, flat_memswap_when_word_body(W, l, m), m, words)
  ELSE l

flat_memswap_when_start(a, b) ==
  [i |-> 0, mem |-> [a |-> a, b |-> b], writes |-> <<>>, iters |-> 0]
flat_memswap_when_u16(cond, a, b, words) ==
  flat_memswap_when_word_loop(16, flat_memswap_when_start(a, b), flat_mask_from_bit_u16(cond), words)
flat_memswap_when_u32(cond, a, b, words) ==
  flat_memswap_when_word_loop(32, flat_memswap_when_start(a, b), flat_mask_from_bit_u32(cond), words)
flat_memswap_when_u64(cond, a, b, words) ==
  flat_memswap_when_word_loop(64, flat_memswap_when_start(a, b), flat_mask_from_bit_u64(cond), words)

(***************************************************************************)
(* Calls of flat_memxor, flat_memcpy_when and flat_memswap_when at every   *)
(* element type, on disjoint buffers that hold one element more than the   *)
(* length passed; the call is made once and then once more with the same   *)
(* arguments.                                                              *)
(***************************************************************************)
TypedFns == {"memxor", "memcpy_when", "memswap_when"}
TypedConds == {ToBits(0, 32), ToBits(1, 32)}

TypedArgs(f) ==
  CASE f = "memxor" ->
         UNION {[ty : {t}, dst : Tables(Width(t), n + 1), src : Tables(Width(t), n + 1),
                 len : {n}] : t \in LookupTypes, n \in Lens}
    [] f = "memcpy_when" ->
         UNION {[ty : {t}, cond : TypedConds, dst : Tables(Width(t), n + 1),
                 src : Tables(Width(t), n + 1), len : {n}] : t \in LookupTypes, n \in Lens}
    [] f = "memswap_when" ->
         UNION {[ty : {t}, cond : TypedConds, a : Tables(Width(t), n + 1),
                 b : Tables(Width(t), n + 1), len : {n}] : t \in LookupTypes, n \in Lens}

TypedOf(f, a) ==
  IF f = "memswap_when" THEN [a |-> a.a, b |-> a.b] ELSE [dst |-> a.dst, src |-> a.src]

InitTyped ==
  /\ pc = "call"
  /\ fn \in TypedFns
  /\ args \in TypedArgs(fn)
  /\ mem = TypedOf(fn, args)
  /\ loc = <<>>
  /\ ret = <<>>

\* the first call ends in "done", the second in "redone"
FinishTyped(l) ==
  /\ pc \in {"call", "done"}
  /\ pc' = IF pc = "call" THEN "done" ELSE "redone"
  /\ mem' = l.mem
  /\ loc' = [i |-> l.i, writes |-> l.writes, iters |-> l.iters]
  /\ UNCHANGED <<fn, args, ret>>

Memxor ==
  /\ fn = "memxor"
  /\ FinishTyped(CASE args.ty = "u8" -> flat_memxor(mem.dst, mem.src, args.len)
                   [] args.ty = "u16" -> flat_memxor_u16(mem.dst, mem.src, args.len)
                   [] args.ty = "u32" -> flat_memxor_u32(mem.dst, mem.src, args.len)
                   [] args.ty = "u64" -> flat_memxor_u64(mem.dst, mem.src, args.len))

MemcpyWhenTyped ==
  /\ fn = "memcpy_when"
  /\ FinishTyped(
       CASE args.ty = "u8" -> flat_memcpy_when(args.cond, mem.dst, mem.src, args.len)
         [] args.ty = "u16" -> flat_memcpy_when_u16(args.cond, mem.dst, mem.src, args.len)
         [] args.ty = "u32" -> flat_memcpy_when_u32(args.cond, mem.dst, mem.src, args.len)
         [] args.ty = "u64" -> flat_memcpy_when_u64(args.cond, mem.dst, mem.src, args.len))

MemswapWhenTyped ==
  /\ fn = "memswap_when"
  /\ FinishTyped(
       CASE args.ty = "u8" -> flat_memswap_when(args.cond, mem.a, mem.b, args.len)
         [] args.ty = "u16" -> flat_memswap_when_u16(args.cond, mem.a, mem.b, args.len)
         [] args.ty = "u32" -> flat_memswap_when_u32(args.cond, mem.a, mem.b, args.len)
         [] args.ty = "u64" -> flat_memswap_when_u64(args.cond, mem.a, mem.b, args.len))

NextTyped ==
  \/ Memxor
  \/ MemcpyWhenTyped
  \/ MemswapWhenTyped

SpecTyped == InitTyped /\ [][NextTyped]_vars

\* the elements of a buffer at the indices in lo..hi agree with those of another
SameOn(x, y, lo, hi) == \A i \in lo..hi : At(x, i) = At(y, i)
Redone(f) == pc = "redone" /\ fn = f

\* C12: flat_memxor(a, b, n), byte and 16/32/64-bit word variants, on disjoint
\* buffers sets a[i] to a[i] XOR b[i] for every i < n and leaves b unchanged;
\* applying it twice restores a.
C12_MemxorIsInvolution ==
  /\ Returned("memxor") =>
       /\ \A i \in 0..(args.len - 1) :
            At(mem.dst, i) = BvXor(At(args.dst, i), At(args.src, i))
       /\ mem.src = args.src
  /\ Redone("memxor") => mem = TypedOf(fn, args)

C12_Witness ==
  /\ Redone("memxor")
  /\ args.ty = "u32"
  /\ args.len = MaxLen
  /\ SameOn(args.src, [i \in 1..MaxLen |-> Ones(32)], 0, MaxLen - 1)
  /\ mem.dst = args.dst
  /\ Len(loc.writes) = MaxLen

\* C13: flat_memcpy_when(1, d, s, n), byte and word variants, on disjoint
\* buffers leaves d[i] = s[i] for every i < n; flat_memcpy_when(0, d, s, n)
\* leaves d as it was; in both cases s and every element of d at an index
\* >= n are unchanged.
C13_MemcpyWhenFrame ==
  Returned("memcpy_when") =>
    /\ args.cond = ToBits(1, 32) => SameOn(mem.dst, args.src, 0, args.len - 1)
    /\ args.cond = ToBits(0, 32) => mem.dst = args.dst
    /\ mem.src = args.src
    /\ Len(mem.dst) = Len(args.dst)
    /\ SameOn(mem.dst, args.dst, args.len, Len(args.dst) - 1)

\* cond = 1, the element after the copied ones differs between d and s
C13_Witness ==
  /\ Returned("memcpy_when")
  /\ args.ty = "u16"
  /\ args.cond = ToBits(1, 32)
  /\ args.len = MaxLen
  /\ \A i \in 0..MaxLen : At(args.dst, i) # At(args.src, i)
  /\ SameOn(mem.dst, args.src, 0, MaxLen - 1)
  /\ At(mem.dst, MaxLen) = At(args.dst, MaxLen)

\* C14: flat_memswap_when(1, a, b, n), byte and word variants, on disjoint
\* buffers exchanges the contents on the indices < n;
\* flat_memswap_when(0, a, b, n) leaves both buffers unchanged; two
\* successive calls with cond = 1 restore both buffers.
C14_MemswapWhenSwaps ==
  /\ Returned("memswap_when") =>
       /\ args.cond = ToBits(1, 32) =>
            /\ SameOn(mem.a, args.b, 0, args.len - 1)
            /\ SameOn(mem.b, args.a, 0, args.len - 1)
            /\ SameOn(mem.a, args.a, args.len, Len(args.a) - 1)
            /\ SameOn(mem.b, args.b, args.len, Len(args.b) - 1)
       /\ args.cond = ToBits(0, 32) => mem = TypedOf(fn, args)
  /\ Redone("memswap_when") => mem = TypedOf(fn, args)

C14_Witness ==
  /\ Returned("memswap_when")
  /\ args.ty = "u64"
  /\ args.cond = ToBits(1, 32)
  /\ args.len = MaxLen
  /\ \A i \in 0..(MaxLen - 1) : At(args.a, i) # At(args.b, i)
  /\ SameOn(mem.a, args.b, 0, MaxLen - 1)
  /\ SameOn(mem.b, args.a, 0, MaxLen - 1)

(***************************************************************************)
(* Properties of flat_zeropad_data_len and flat_lookup_W.                  *)
(***************************************************************************)
\* the indices below n that hold a non-zero byte, and the greatest of a
\* non-empty set of naturals
NonZeroAt(buf, n) == {i \in 0..(n - 1) : At(buf, i) # Zero(8)}
MaxNat(S) == CHOOSE x \in S : \A y \in S : y <= x

\* C15: flat_zeropad_data_len(buf, n) returns 1 + the greatest index i < n
\* with buf[i] != 0, and 0 when every byte is zero or n = 0; non-zero bytes
\* at lower indices do not change the result.
C15_ZeropadDataLen ==
  Returned("zeropad_data_len") =>
    ret = ToBits(IF NonZeroAt(args.buf, args.len) = {} THEN 0
                 ELSE 1 + MaxNat(NonZeroAt(args.buf, args.len)), SizeBits)

\* the last byte and the first are both non-zero: the result is the length
C15_Witness ==
  /\ Returned("zeropad_data_len")
  /\ args.len = MaxLen
  /\ At(args.buf, 0) = Ones(8)
  /\ At(args.buf, MaxLen - 1) = ToBits(1, 8)
  /\ ret = ToBits(MaxLen, SizeBits)

\* C17: flat_lookup_W(arr, len, idx) returns arr[idx] when idx < len and 0
\* when idx >= len (len = 0 included), and reads no element at an index
\* >= len.
C17_LookupOutOfRangeIsZero ==
  Returned("lookup") =>
    /\ \A i \in 0..(args.len - 1) : args.idx = ToBits(i, SizeBits) => ret = At(args.arr, i)
    /\ (\A i \in 0..(args.len - 1) : args.idx # ToBits(i, SizeBits))
         => ret = Zero(Width(args.ty))
    /\ \A k \in 1..Len(loc.reads) : loc.reads[k][2] < args.len

\* idx = 2^32, whose low half is a valid index: the result is 0
C17_Witness ==
  /\ Returned("lookup")
  /\ args.ty = "u64"
  /\ args.len = MaxLen
  /\ args.idx = Vec(SizeBits, LAMBDA i : IF i = 33 THEN 1 ELSE 0)
  /\ At(args.arr, 0) = Ones(64)
  /\ ret = Zero(64)
  /\ Len(loc.reads) = MaxLen

\* C18: flat_store_at_W(arr, len, idx, value) with idx < len leaves
\* arr[idx] = value and every other element as it was; with idx >= len the
\* whole array is unchanged; a following flat_lookup_W(arr, len, idx) returns
\* value when idx < len.
C18_StoreAtFrame ==
  /\ (pc \in {"done", "looked"} /\ fn = "store_at") =>
       /\ Len(mem.arr) = Len(args.arr)
       /\ \A i \in 0..(args.len - 1) :
            At(mem.arr, i) = IF args.idx = ToBits(i, SizeBits) THEN args.value
                             ELSE At(args.arr, i)
       /\ (\A i \in 0..(args.len - 1) : args.idx # ToBits(i, SizeBits))
            => mem.arr = args.arr
  /\ (pc = "looked" /\ fn = "store_at") =>
       \A i \in 0..(args.len - 1) : args.idx = ToBits(i, SizeBits) => ret = args.value

\* a store to the last element, read back
C18_Witness ==
  /\ pc = "looked" /\ fn = "store_at"
  /\ args.ty = "u16"
  /\ args.len = MaxLen
  /\ args.idx = ToBits(MaxLen - 1, SizeBits)
  /\ At(args.arr, MaxLen - 1) # args.value
  /\ At(mem.arr, MaxLen - 1) = args.value
  /\ ret = args.value

(***************************************************************************)
(* S-box / Table transform (CT).                                           *)
(***************************************************************************)
\* a body that indexes the table with the input byte
flat_table_apply_u8_body_direct(l, in, table, table_len) ==
  LET idx == ToNat(At(in, l.i))
      v == IF idx < table_len THEN At(table, idx) ELSE Zero(8)
  IN [i |-> l.i + 1,
      mem |-> [out |-> Put(l.mem.out, l.i, v)],
      reads |-> l.reads \o <<(<<"in", l.i>>)>>
                  \o (IF idx < table_len THEN <<(<<"table", idx>>)>> ELSE <<>>),
      iters |-> l.iters + 1]
\* idx = (size_t)in[i]; out[i] = flat_lookup_u8(table, table_len, idx)
flat_table_apply_u8_body(l, in, table, table_len) ==
  LET idx == ZExt(At(in, l.i), SizeBits)
      r == flat_lookup_u8(table, table_len, idx)
  IN [i |-> l.i + 1,
      mem |-> [out |-> Put(l.mem.out, l.i, r.val)],
      reads |-> l.reads \o <<(<<"in", l.i>>)>>
                  \o Vec(Len(r.loc.reads), LAMBDA k : <<"table", r.loc.reads[k][2]>>),
      iters |-> l.iters + 1]

RECURSIVE flat_table_apply_u8_loop(_, _, _, _, _)
flat_table_apply_u8_loop(l, in, n, table, table_len) ==
  IF l.i < n
  THEN flat_table_apply_u8_loop(flat_table_apply_u8_body(l, in, table, table_len),
                                in, n, table, table_len)
  ELSE l

flat_table_apply_u8(out, in, n, table, table_len) ==
  flat_table_apply_u8_loop([i |-> 0, mem |-> [out |-> out], reads |-> <<>>, iters |-> 0],
                           in, n, table, table_len)

(***************************************************************************)
(* Oblivious block select (scan-based).                                    *)
(***************************************************************************)
\* for (k = 0; k < stride; k++) o[k] = 0
RECURSIVE flat_select_block_zero(_, _, _)
flat_select_block_zero(o, k, stride) ==
  IF k < stride THEN flat_select_block_zero(Put(o, k, Zero(8)), k + 1, stride) ELSE o

\* uint8_t m = (uint8_t)msz; o[k] = (uint8_t)((b[k] & m) | (o[k] & (uint8_t)~m)),
\* with b = base + i * stride
flat_select_block_inner_body(l, base, stride, msz) ==
  LET m == U8(msz)
      v == U8(BvOr(BvAnd(P(At(base, l.i * stride + l.k)), P(m)),
                   BvAnd(P(At(l.mem.out, l.k)), P(U8(BvNot(P(m)))))))
  IN [l EXCEPT !.k = l.k + 1,
               !.mem = [out |-> Put(l.mem.out, l.k, v)],
               !.reads = l.reads \o <<(<<"blocks", l.i * stride + l.k>>), (<<"out", l.k>>)>>]

RECURSIVE flat_select_block_inner(_, _, _, _)
flat_select_block_inner(l, base, stride, msz) ==
  IF l.k < stride
  THEN flat_select_block_inner(flat_select_block_inner_body(l, base, stride, msz),
                               base, stride, msz)
  ELSE l

\* msz = flat_mask_eq_sz(i, secret_idx), then the inner loop over the block
flat_select_block_body(l, base, stride, secret_idx) ==
  LET msz == flat_mask_eq_sz(ToBits(l.i, SizeBits), secret_idx)
      r == flat_select_block_inner([l EXCEPT !.k = 0], base, stride, msz)
  IN [r EXCEPT !.i = l.i + 1, !.iters = l.iters + 1]

RECURSIVE flat_select_block_loop(_, _, _, _, _)
flat_select_block_loop(l, base, count, stride, secret_idx) ==
  IF l.i < count
  THEN flat_select_block_loop(flat_select_block_body(l, base, stride, secret_idx),
                              base, count, stride, secret_idx)
  ELSE l

\* a call that leaves out as it finds it before the scan
flat_select_block_nozero(out, blocks, count, stride, secret_idx) ==
  flat_select_block_loop([i |-> 0, k |-> 0, mem |-> [out |-> out],
                          reads |-> <<>>, iters |-> 0],
                         blocks, count, stride, secret_idx)
flat_select_block(out, blocks, count, stride, secret_idx) ==
  flat_select_block_loop([i |-> 0, k |-> 0,
                          mem |-> [out |-> flat_select_block_zero(out, 0, stride)],
                          reads |-> <<>>, iters |-> 0],
                         blocks, count, stride, secret_idx)

(***************************************************************************)
(* Calls of flat_table_apply_u8 and flat_select_block.  out holds 0xAA (or *)
(* zero) before the call.                                                  *)
(***************************************************************************)
TableFns == {"table_apply", "select_block"}
\* input bytes: the indices of the table, one past its end, and 255
InBytes == {ToBits(k, 8) : k \in 0..(MaxLen + 1)} \cup {Ones(8)}
Stale(n) == Vec(n, LAMBDA k : Vec(8, LAMBDA i : (i + 1) % 2))
\* blocks[i][k] = 10 * i + k + 1, or 0xFF in every byte
Blocks(count, stride) ==
  {Vec(count * stride, LAMBDA j : ToBits(10 * ((j - 1) \div stride) + ((j - 1) % stride) + 1, 8)),
   Vec(count * stride, LAMBDA j : Ones(8))}

TableArgs(f) ==
  CASE f = "table_apply" ->
         UNION {[in : {Vec(n, LAMBDA k : g[k]) : g \in [1..n -> InBytes]}, n : {n},
                 table : Tables(8, tl), table_len : {tl}, out : {Stale(n)}]
                : n \in Lens, tl \in Lens}
    [] f = "select_block" ->
         UNION {[blocks : Blocks(c, st), count : {c}, stride : {st}, secret_idx : Idxs,
                 out : {Stale(st), Vec(st, LAMBDA k : Zero(8))}]
                : c \in Lens, st \in Lens}

InitTable ==
  /\ pc = "call"
  /\ fn \in TableFns
  /\ args \in TableArgs(fn)
  /\ mem = [out |-> args.out]
  /\ loc = <<>>
  /\ ret = <<>>

FinishTable(l) ==
  /\ pc' = "done"
  /\ mem' = l.mem
  /\ loc' = [i |-> l.i, reads |-> l.reads, iters |-> l.iters]
  /\ UNCHANGED <<fn, args, ret>>

TableApply ==
  /\ pc = "call" /\ fn = "table_apply"
  /\ FinishTable(flat_table_apply_u8(mem.out, args.in, args.n, args.table, args.table_len))

SelectBlock ==
  /\ pc = "call" /\ fn = "select_block"
  /\ FinishTable(flat_select_block(mem.out, args.blocks, args.count, args.stride,
                                   args.secret_idx))

NextTable ==
  \/ TableApply
  \/ SelectBlock

SpecTable == InitTable /\ [][NextTable]_vars

\* the reads of one buffer, in order
ReadsOf(name, rs) == SelectSeq(rs, LAMBDA r : r[1] = name)
\* n sweeps of a table of tl elements, each after the read of one input byte
ApplySweep(n, tl) ==
  Vec(n * (tl + 1), LAMBDA j : IF (j - 1) % (tl + 1) = 0 THEN <<"in", (j - 1) \div (tl + 1)>>
                               ELSE <<"table", ((j - 1) % (tl + 1)) - 1>>)

\* C19: flat_table_apply_u8 writes out[i] = flat_lookup_u8(table, table_len,
\* in[i]) for every i < n, that is table[in[i]] when in[i] < table_len and 0
\* otherwise, with a full sweep of table_len table reads per input byte
\* (n * table_len reads in all, whatever the input bytes are).
C19_TableApplySweeps ==
  Returned("table_apply") =>
    /\ \A i \in 0..(args.n - 1) :
         /\ At(mem.out, i) = flat_lookup_u8(args.table, args.table_len,
                                            ZExt(At(args.in, i), SizeBits)).val
         /\ At(mem.out, i) = IF ToNat(At(args.in, i)) < args.table_len
                             THEN At(args.table, ToNat(At(args.in, i)))
                             ELSE Zero(8)
    /\ Len(ReadsOf("table", loc.reads)) = args.n * args.table_len
    /\ loc.reads = ApplySweep(args.n, args.table_len)

\* one input byte inside the table and one past its end
C19_Witness ==
  /\ Returned("table_apply")
  /\ args.n = MaxLen /\ args.table_len = MaxLen
  /\ At(args.in, 0) = ToBits(MaxLen - 1, 8)
  /\ At(args.in, MaxLen - 1) = ToBits(MaxLen, 8)
  /\ At(args.table, MaxLen - 1) = Ones(8)
  /\ At(mem.out, 0) = Ones(8)
  /\ At(mem.out, MaxLen - 1) = Zero(8)
  /\ Len(loc.reads) = MaxLen * (MaxLen + 1)

\* C20: flat_select_block leaves out[0..stride) equal to the block
\* blocks[secret_idx] when secret_idx < count and all zero when
\* secret_idx >= count, whatever out held before; it reads every block
\* exactly once.
C20_SelectBlock ==
  Returned("select_block") =>
    /\ Len(mem.out) = args.stride
    /\ \A i \in 0..(args.count - 1) : args.secret_idx = ToBits(i, SizeBits) =>
         \A k \in 0..(args.stride - 1) :
           At(mem.out, k) = At(args.blocks, i * args.stride + k)
    /\ (\A i \in 0..(args.count - 1) : args.secret_idx # ToBits(i, SizeBits)) =>
         \A k \in 0..(args.stride - 1) : At(mem.out, k) = Zero(8)
    /\ ReadsOf("blocks", loc.reads) = UpSweep("blocks", args.count * args.stride)

\* secret_idx = count with a stale out: out is zero after the call
C20_Witness ==
  /\ Returned("select_block")
  /\ args.count = MaxLen /\ args.stride = MaxLen
  /\ args.secret_idx = ToBits(MaxLen, SizeBits)
  /\ args.out = Stale(MaxLen)
  /\ mem.out = Vec(MaxLen, LAMBDA k : Zero(8))
  /\ Len(ReadsOf("blocks", loc.reads)) = MaxLen * MaxLen

(***************************************************************************)
(* Auto-dispatch SIMD (NEON/SSE2/AVX2) or portable fallback.  A vector is  *)
(* a tuple of bytes; VecBytes is the width of the back-end's register and  *)
(* BigLanes the number of registers its first loop handles per iteration.  *)
(* off is the distance the pointers have advanced.                         *)
(***************************************************************************)
Backends == {"avx2", "sse2", "neon", "portable"}
VecBytes(be) == IF be = "avx2" THEN 32 ELSE 16
BigLanes(be) == IF be = "neon" THEN 4 ELSE 2

\* _mm256_loadu_si256 / _mm_loadu_si128 / vld1q_u8 at p + off
Loadu(buf, off, V) == SubSeq(buf, off + 1, off + V)
\* the stores of consecutive registers vs[1], vs[2], .. at p + off, p + off + V, ..
Storeu(buf, off, V, vs) ==
  Vec(Len(buf), LAMBDA k : IF off < k /\ k <= off + V * Len(vs)
                           THEN vs[((k - off - 1) \div V) + 1][((k - off - 1) % V) + 1]
                           ELSE buf[k])
\* _mm256_set1_epi8 / _mm_set1_epi8 / vdupq_n_u8
Set1(b, V) == Vec(V, LAMBDA k : b)
\* xor, and, or of registers
VXor(x, y) == Vec(Len(x), LAMBDA k : BvXor(x[k], y[k]))
VAnd(x, y) == Vec(Len(x), LAMBDA k : BvAnd(x[k], y[k]))
VOr(x, y) == Vec(Len(x), LAMBDA k : BvOr(x[k], y[k]))
\* an and-not with its operands exchanged
VAndNot_exchanged(m, d) == Vec(Len(d), LAMBDA k : BvAnd(m[k], BvNot(d[k])))
\* _mm256_andnot_si256(m, d) = ~m & d; vbicq_u8(d, m) = d & ~m
VAndNot(m, d) == Vec(Len(d), LAMBDA k : BvAnd(BvNot(m[k]), d[k]))

\* one iteration of a vector loop of flat_memxor_auto over `lanes` registers:
\* every register is loaded before the first store
flat_memxor_auto_vec(m, off, V, lanes) ==
  [m EXCEPT !.x2 = Storeu(m.x2, off, V,
     Vec(lanes, LAMBDA j : VXor(Loadu(m.x2, off + (j - 1) * V, V),
                                Loadu(m.y2, off + (j - 1) * V, V))))]
\* *dst++ ^= *src++
flat_memxor_auto_byte(m, off) ==
  [m EXCEPT !.x2 = Put(m.x2, off, U8(BvXor(P(At(m.x2, off)), P(At(m.y2, off)))))]

\* one iteration of a vector loop of flat_memcpy_when_auto:
\* store(dst, or(and(s, m), andnot(m, d)))
flat_memcpy_when_auto_vec(m, cond, off, V, lanes) ==
  LET mv == Set1(flat_mask_from_bit_u8(cond), V)
  IN [m EXCEPT !.x2 = Storeu(m.x2, off, V,
        Vec(lanes, LAMBDA j : VOr(VAnd(Loadu(m.y2, off + (j - 1) * V, V), mv),
                                  VAndNot(mv, Loadu(m.x2, off + (j - 1) * V, V)))))]
\* *dst = (uint8_t)((s & m8) | (d & (uint8_t)~m8))
flat_memcpy_when_auto_byte(m, cond, off) ==
  LET m8 == flat_mask_from_bit_u8(cond)
  IN [m EXCEPT !.x2 = Put(m.x2, off,
        U8(BvOr(BvAnd(P(At(m.y2, off)), P(m8)),
                BvAnd(P(At(m.x2, off)), P(U8(BvNot(P(m8))))))))]

\* one iteration of a vector loop of flat_memswap_when_auto:
\* t = and(xor(av, bv), m); store(a, xor(av, t)); store(b, xor(bv, t))
flat_memswap_when_auto_vec(m, cond, off, V, lanes) ==
  LET mv == Set1(flat_mask_from_bit_u8(cond), V)
      av(j) == Loadu(m.x2, off + (j - 1) * V, V)
      bv(j) == Loadu(m.y2, off + (j - 1) * V, V)
      t(j) == VAnd(VXor(av(j), bv(j)), mv)
  IN [m EXCEPT !.x2 = Storeu(m.x2, off, V, Vec(lanes, LAMBDA j : VXor(av(j), t(j)))),
               !.y2 = Storeu(m.y2, off, V, Vec(lanes, LAMBDA j : VXor(bv(j), t(j))))]
\* t = (uint8_t)((*a ^ *b) & m8); *a ^= t; *b ^= t
flat_memswap_when_auto_byte(m, cond, off) ==
  LET m8 == flat_mask_from_bit_u8(cond)
      t == U8(BvAnd(BvXor(P(At(m.x2, off)), P(At(m.y2, off))), P(m8)))
  IN [m EXCEPT !.x2 = Put(m.x2, off, U8(BvXor(P(At(m.x2, off)), P(t)))),
               !.y2 = Put(m.y2, off, U8(BvXor(P(At(m.y2, off)), P(t))))]

(***************************************************************************)
(* The scalar function and the auto variant run on two copies of the same  *)
(* buffers: x1, y1 are the scalar's dst/src (a/b for the swap), x2, y2 the *)
(* auto variant's.  The scalar loop runs first, one iteration per step;    *)
(* then the back-end the build selected runs, one loop iteration per step. *)
(* Every buffer holds one byte more than the length passed.                *)
(***************************************************************************)
AutoFns == {"memxor", "memcpy_when", "memswap_when"}
\* lengths around the chunk sizes 16, 32 and 64 and their sums
AutoLens == {0, 1, 15, 16, 17, 31, 32, 33, 48, 63, 64, 65, 97, 113, 129}
AutoConds == {ToBits(k, 32) : k \in 0..2}
\* buffer contents: byte k is (a * k + b) mod 256
Pattern(n, a, b) == Vec(n, LAMBDA k : ToBits((a * k + b) % 256, 8))

AutoArgs(f) ==
  {[cond |-> c, len |-> n, x |-> Pattern(n + 1, 7, 3), y |-> Pattern(n + 1, 29, 7)]
     : c \in IF f = "memxor" THEN {ToBits(0, 32)} ELSE AutoConds, n \in AutoLens}

InitAuto ==
  /\ pc = "scalar"
  /\ fn \in AutoFns
  /\ args \in AutoArgs(fn)
  /\ mem = [x1 |-> args.x, y1 |-> args.y, x2 |-> args.x, y2 |-> args.y]
  /\ loc = [be |-> "none", i |-> 0, off |-> 0, len |-> args.len]
  /\ ret = <<>>

\* one iteration of the loop of flat_memxor, flat_memcpy_when or flat_memswap_when
ScalarIter ==
  /\ pc = "scalar" /\ loc.i < args.len
  /\ LET m == flat_mask_from_bit_u8(args.cond)
         l == [i |-> loc.i, writes |-> <<>>, iters |-> 0,
               mem |-> IF fn = "memswap_when" THEN [a |-> mem.x1, b |-> mem.y1]
                       ELSE [dst |-> mem.x1, src |-> mem.y1]]
         r == CASE fn = "memxor" -> flat_memxor_body(8, l)
                [] fn = "memcpy_when" -> flat_memcpy_when_body(l, m)
                [] fn = "memswap_when" -> flat_memswap_when_body(l, m)
     IN /\ mem' = IF fn = "memswap_when"
                  THEN [mem EXCEPT !.x1 = r.mem.a, !.y1 = r.mem.b]
                  ELSE [mem EXCEPT !.x1 = r.mem.dst, !.y1 = r.mem.src]
        /\ loc' = [loc EXCEPT !.i = r.i]
  /\ UNCHANGED <<pc, fn, args, ret>>

\* the scalar call returns; the auto variant is entered in one of the back-ends
ScalarExit ==
  /\ pc = "scalar" /\ ~(loc.i < args.len)
  /\ pc' = "auto"
  /\ \E be \in Backends : loc' = [be |-> be, i |-> 0, off |-> 0, len |-> args.len]
  /\ UNCHANGED <<fn, args, mem, ret>>

\* the memory after one iteration of a vector loop over `lanes` registers
AutoVec(lanes) ==
  CASE fn = "memxor" -> flat_memxor_auto_vec(mem, loc.off, VecBytes(loc.be), lanes)
    [] fn = "memcpy_when" ->
         flat_memcpy_when_auto_vec(mem, args.cond, loc.off, VecBytes(loc.be), lanes)
    [] fn = "memswap_when" ->
         flat_memswap_when_auto_vec(mem, args.cond, loc.off, VecBytes(loc.be), lanes)
\* the memory after the byte operation at offset off
AutoByte(off) ==
  CASE fn = "memxor" -> flat_memxor_auto_byte(mem, off)
    [] fn = "memcpy_when" -> flat_memcpy_when_auto_byte(mem, args.cond, off)
    [] fn = "memswap_when" -> flat_memswap_when_auto_byte(mem, args.cond, off)

\* while (len >= 64) (AVX2, NEON) or while (len >= 32) (SSE2)
AutoBig ==
  /\ pc = "auto" /\ loc.be \in {"avx2", "sse2", "neon"}
  /\ loc.len >= VecBytes(loc.be) * BigLanes(loc.be)
  /\ mem' = AutoVec(BigLanes(loc.be))
  /\ loc' = [loc EXCEPT !.off = loc.off + VecBytes(loc.be) * BigLanes(loc.be),
                        !.len = loc.len - VecBytes(loc.be) * BigLanes(loc.be)]
  /\ UNCHANGED <<pc, fn, args, ret>>

\* while (len >= 32) (AVX2) or while (len >= 16) (SSE2, NEON)
AutoSmall ==
  /\ pc = "auto" /\ loc.be \in {"avx2", "sse2", "neon"}
  /\ loc.len < VecBytes(loc.be) * BigLanes(loc.be)
  /\ loc.len >= VecBytes(loc.be)
  /\ mem' = AutoVec(1)
  /\ loc' = [loc EXCEPT !.off = loc.off + VecBytes(loc.be),
                        !.len = loc.len - VecBytes(loc.be)]
  /\ UNCHANGED <<pc, fn, args, ret>>

\* while (len)
AutoTail ==
  /\ pc = "auto" /\ loc.be \in {"avx2", "sse2", "neon"}
  /\ loc.len < VecBytes(loc.be) /\ loc.len > 0
  /\ mem' = AutoByte(loc.off)
  /\ loc' = [loc EXCEPT !.off = loc.off + 1, !.len = loc.len - 1]
  /\ UNCHANGED <<pc, fn, args, ret>>

\* the portable fallback: for (i = 0; i < len; i++)
PortableIter ==
  /\ pc = "auto" /\ loc.be = "portable"
  /\ loc.i < args.len
  /\ mem' = AutoByte(loc.i)
  /\ loc' = [loc EXCEPT !.i = loc.i + 1]
  /\ UNCHANGED <<pc, fn, args, ret>>

AutoExit ==
  /\ pc = "auto"
  /\ \/ loc.be \in {"avx2", "sse2", "neon"} /\ loc.len = 0
     \/ loc.be = "portable" /\ ~(loc.i < args.len)
  /\ pc' = "done"
  /\ UNCHANGED <<fn, args, mem, loc, ret>>

NextAuto ==
  \/ ScalarIter
  \/ ScalarExit
  \/ AutoBig
  \/ AutoSmall
  \/ AutoTail
  \/ PortableIter
  \/ AutoExit

SpecAuto == InitAuto /\ [][NextAuto]_vars

\* C16: for every length, cond and buffer content, each back-end of
\* flat_memxor_auto, flat_memcpy_when_auto and flat_memswap_when_auto (AVX2
\* 64/32/1, SSE2 32/16/1, NEON 64/16/1, portable) leaves every buffer, both
\* buffers of the swap included, byte-identical to what flat_memxor,
\* flat_memcpy_when and flat_memswap_when leave, and touches no byte at an
\* index >= n.
C16_AutoAgreesWithScalar ==
  (pc = "done" /\ fn \in AutoFns) =>
    /\ mem.x2 = mem.x1
    /\ mem.y2 = mem.y1
    /\ Len(mem.x2) = args.len + 1 /\ Len(mem.y2) = args.len + 1
    /\ At(mem.x2, args.len) = At(args.x, args.len)
    /\ At(mem.y2, args.len) = At(args.y, args.len)

\* the AVX2 swap of 97 = 64 + 32 + 1 bytes with cond = 1
C16_Witness ==
  /\ pc = "done" /\ fn = "memswap_when"
  /\ loc.be = "avx2"
  /\ args.len = 97 /\ loc.off = 97
  /\ args.cond = ToBits(1, 32)
  /\ SameOn(mem.x2, args.y, 0, 96)
  /\ SameOn(mem.y2, args.x, 0, 96)
  /\ mem.x2 # args.x

(***************************************************************************)
(* The loop invariant of the division.                                     *)
(***************************************************************************)
\* x >> k for 0 <= k <= Len(x), over the naturals
ShrNat(x, k) == Vec(Len(x), LAMBDA i : IF i + k <= Len(x) THEN x[i + k] ELSE 0)

\* C30: in flat_div_mod_ct_u32/u64 with d != 0, after the k-th iteration
\* (k = 0..W) the partial remainder rv is (n >> (W - k)) mod d and the
\* quotient bits set so far are (n >> (W - k)) div d shifted into place; so
\* rv < d after every iteration, and rv < 2^(W-1) before every left shift,
\* also when d > 2^(W-1).
C30_DivLoopInvariant ==
  (fn = "div_mod_ct" /\ pc = "loop" /\ args.d # Zero(Width(args.ty))) =>
    LET W == Width(args.ty)
        k == loc.iters
    IN /\ IsQuotRem(ShrNat(args.n, W - k), args.d, ShrNat(loc.qv, W - k), loc.rv)
       /\ loc.qv = BvShl(ShrNat(loc.qv, W - k), W - k)
       /\ k >= 1 => ULt(loc.rv, args.d)
       /\ flat_div_mod_ct_more(loc, args.n, args.d) => loc.rv[W] = 0

\* the last shift with d = 2^63 + 1 and n = 2^64 - 1: rv is 2^63 - 1
C30_Witness ==
  /\ fn = "div_mod_ct" /\ pc = "loop" /\ args.ty = "u64"
  /\ args.d = BvAdd(TopBit(64), ToBits(1, 64))
  /\ args.n = Ones(64)
  /\ loc.iters = 63 /\ loc.i = 0
  /\ loc.rv = BvSub(TopBit(64), ToBits(1, 64))

(***************************************************************************)
(* Add/sub with carry/borrow, and the masked ADC/SBC.  A call returns      *)
(* [val, out]: the word returned and the unsigned stored through cout/bout.*)
(***************************************************************************)
\* an adc that takes the carry of x + y only
flat_adc_u32_onecarry(x, y, cin) ==
  LET s1 == BvAdd(x, y)
      c1 == flat_mask_to_bit_u32(flat_mask_lt_u32(s1, x))
      s2 == BvAdd(s1, BvAnd(cin, ToBits(1, 32)))
  IN [val |-> s2, out |-> c1]
flat_adc_u32(x, y, cin) ==
  LET s1 == BvAdd(x, y)
      c1 == flat_mask_to_bit_u32(flat_mask_lt_u32(s1, x))
      s2 == BvAdd(s1, BvAnd(cin, ToBits(1, 32)))
      c2 == flat_mask_to_bit_u32(flat_mask_lt_u32(s2, s1))
  IN [val |-> s2, out |-> BvOr(c1, c2)]
flat_adc_u64(x, y, cin) ==
  LET s1 == BvAdd(x, y)
      c1 == flat_mask_to_bit_u32(Trunc(flat_mask_lt_u64(s1, x), 32))
      s2 == BvAdd(s1, ZExt(BvAnd(cin, ToBits(1, 32)), 64))
      c2 == flat_mask_to_bit_u32(Trunc(flat_mask_lt_u64(s2, s1), 32))
  IN [val |-> s2, out |-> BvOr(c1, c2)]
flat_sbc_u32(x, y, bin) ==
  LET t == BvSub(x, y)
      b1 == flat_mask_to_bit_u32(flat_mask_lt_u32(x, y))
      r == BvSub(t, BvAnd(bin, ToBits(1, 32)))
      b2 == flat_mask_to_bit_u32(flat_mask_lt_u32(t, BvAnd(bin, ToBits(1, 32))))
  IN [val |-> r, out |-> BvOr(b1, b2)]
flat_sbc_u64(x, y, bin) ==
  LET t == BvSub(x, y)
      b1 == flat_mask_to_bit_u32(Trunc(flat_mask_lt_u64(x, y), 32))
      r == BvSub(t, ZExt(BvAnd(bin, ToBits(1, 32)), 64))
      b2 == flat_mask_to_bit_u32(Trunc(flat_mask_lt_u64(t, ZExt(BvAnd(bin, ToBits(1, 32)), 64)), 32))
  IN [val |-> r, out |-> BvOr(b1, b2)]

\* an adc_when that passes cin on unmasked
flat_adc_when_u32_rawcin(cond, x, y, cin) ==
  LET m == flat_mask_from_bit_u32(cond)
  IN flat_adc_u32(x, BvAnd(y, m), cin)
\* m = mask_from_bit(cond); ym = y & m; cim = cin & (unsigned)(m & 1u)
flat_adc_when_u32(cond, x, y, cin) ==
  LET m == flat_mask_from_bit_u32(cond)
      ym == BvAnd(y, m)
      cim == BvAnd(cin, BvAnd(m, ToBits(1, 32)))
  IN flat_adc_u32(x, ym, cim)
flat_adc_when_u64(cond, x, y, cin) ==
  LET m == flat_mask_from_bit_u64(cond)
      ym == BvAnd(y, m)
      cim == BvAnd(cin, Trunc(BvAnd(m, ToBits(1, 64)), 32))
  IN flat_adc_u64(x, ym, cim)
flat_sbc_when_u32(cond, x, y, bin) ==
  LET m == flat_mask_from_bit_u32(cond)
      ym == BvAnd(y, m)
      binm == BvAnd(bin, BvAnd(m, ToBits(1, 32)))
  IN flat_sbc_u32(x, ym, binm)
flat_sbc_when_u64(cond, x, y, bin) ==
  LET m == flat_mask_from_bit_u64(cond)
      ym == BvAnd(y, m)
      binm == BvAnd(bin, Trunc(BvAnd(m, ToBits(1, 64)), 32))
  IN flat_sbc_u64(x, ym, binm)

(***************************************************************************)
(* Calls of the carry arithmetic; *cout / *bout holds 2^32 - 1 before.     *)
(***************************************************************************)
ArithFns == {"adc", "sbc", "adc_when", "sbc_when"}
ArithTypes == {"u32", "u64"}
\* cin / bin: 0, 1, 2, 3 and 2^32 - 1; cond: 0, 1, 2
CarryIns == {ToBits(k, 32) : k \in 0..3} \cup {Ones(32)}
ArithConds == {ToBits(k, 32) : k \in 0..2}

ArithArgs(f) ==
  UNION {[ty : {t}, x : Words(Width(t)), y : Words(Width(t)), cin : CarryIns,
          cond : IF f \in {"adc", "sbc"} THEN {ToBits(1, 32)} ELSE ArithConds]
         : t \in ArithTypes}

InitArith ==
  /\ pc = "call"
  /\ fn \in ArithFns
  /\ args \in ArithArgs(fn)
  /\ mem = [out |-> Ones(32)]
  /\ loc = <<>>
  /\ ret = <<>>

ReturnCarry(r) ==
  /\ pc' = "done"
  /\ ret' = r.val
  /\ mem' = [out |-> r.out]
  /\ UNCHANGED <<fn, args, loc>>

Adc ==
  /\ pc = "call" /\ fn = "adc"
  /\ ReturnCarry(IF args.ty = "u32" THEN flat_adc_u32(args.x, args.y, args.cin)
                 ELSE flat_adc_u64(args.x, args.y, args.cin))
Sbc ==
  /\ pc = "call" /\ fn = "sbc"
  /\ ReturnCarry(IF args.ty = "u32" THEN flat_sbc_u32(args.x, args.y, args.cin)
                 ELSE flat_sbc_u64(args.x, args.y, args.cin))
AdcWhen ==
  /\ pc = "call" /\ fn = "adc_when"
  /\ ReturnCarry(IF args.ty = "u32"
                 THEN flat_adc_when_u32(args.cond, args.x, args.y, args.cin)
                 ELSE flat_adc_when_u64(args.cond, args.x, args.y, args.cin))
SbcWhen ==
  /\ pc = "call" /\ fn = "sbc_when"
  /\ ReturnCarry(IF args.ty = "u32"
                 THEN flat_sbc_when_u32(args.cond, args.x, args.y, args.cin)
                 ELSE flat_sbc_when_u64(args.cond, args.x, args.y, args.cin))

NextArith ==
  \/ Adc
  \/ Sbc
  \/ AdcWhen
  \/ SbcWhen

SpecArith == InitArith /\ [][NextArith]_vars

\* the base-256 digits of a + b + c (a, b digit sequences of one length, c a
\* carry), followed by the carry out of the top digit
RECURSIVE SumDigits(_, _, _, _)
SumDigits(a, b, c, k) ==
  IF k > Len(a) THEN <<c>>
  ELSE <<(a[k] + b[k] + c) % 256>> \o SumDigits(a, b, (a[k] + b[k] + c) \div 256, k + 1)
WordDigits(x) == Digits(x, Len(x) \div 8)

\* C21: for widths 32 and 64 and any unsigned cin/bin, flat_adc returns
\* (x + y + (cin & 1)) mod 2^W with cout = 1 iff x + y + (cin & 1) >= 2^W,
\* and flat_sbc returns (x - y - (bin & 1)) mod 2^W with bout = 1 iff
\* x < y + (bin & 1) over the integers (that is, ret + y + (bin & 1) =
\* x + bout * 2^W); cout and bout are 0 or 1.
C21_AdcSbcExact ==
  /\ Returned("adc") =>
       /\ mem.out \in {ToBits(0, 32), ToBits(1, 32)}
       /\ SumDigits(WordDigits(args.x), WordDigits(args.y), args.cin[1], 1)
            = WordDigits(ret) \o <<mem.out[1]>>
  /\ Returned("sbc") =>
       /\ mem.out \in {ToBits(0, 32), ToBits(1, 32)}
       /\ SumDigits(WordDigits(ret), WordDigits(args.y), args.cin[1], 1)
            = WordDigits(args.x) \o <<mem.out[1]>>

\* 2^64 - 1 + 0 + carry: the carry comes from the second addition only
C21_Witness ==
  /\ Returned("adc") /\ args.ty = "u64"
  /\ args.x = Ones(64) /\ args.y = Zero(64) /\ args.cin = ToBits(3, 32)
  /\ ret = Zero(64) /\ mem.out = ToBits(1, 32)

\* C22: flat_adc_when and flat_sbc_when with cond & 1 = 0 return x and write
\* carry/borrow 0 even when cin/bin = 1; with cond & 1 = 1 they return the
\* result and carry/borrow of flat_adc / flat_sbc on the same operands.
C22_MaskedAdcSbc ==
  /\ Returned("adc_when") =>
       IF args.cond[1] = 0 THEN ret = args.x /\ mem.out = ToBits(0, 32)
       ELSE [val |-> ret, out |-> mem.out]
              = (IF args.ty = "u32" THEN flat_adc_u32(args.x, args.y, args.cin)
                 ELSE flat_adc_u64(args.x, args.y, args.cin))
  /\ Returned("sbc_when") =>
       IF args.cond[1] = 0 THEN ret = args.x /\ mem.out = ToBits(0, 32)
       ELSE [val |-> ret, out |-> mem.out]
              = (IF args.ty = "u32" THEN flat_sbc_u32(args.x, args.y, args.cin)
                 ELSE flat_sbc_u64(args.x, args.y, args.cin))

\* cond = 2 and cin = 1: x comes back and the stale carry is cleared
C22_Witness ==
  /\ Returned("adc_when") /\ args.ty = "u32"
  /\ args.cond = ToBits(2, 32) /\ args.cin = ToBits(1, 32)
  /\ args.x = Ones(32) /\ args.y = Ones(32)
  /\ ret = Ones(32) /\ mem.out = ToBits(0, 32)

(***************************************************************************)
(* CT error accumulator & commit.  e is the struct's field acc.            *)
(***************************************************************************)
flat_erracc_init(e) == Zero(32)
\* an or that stores the condition instead of accumulating it
flat_erracc_or_assign(e, cond) == BvAnd(cond, ToBits(1, 32))
\* e->acc |= (cond & 1u)
flat_erracc_or(e, cond) == BvOr(e, BvAnd(cond, ToBits(1, 32)))
flat_erracc_ok(e) == BvAnd(flat_mask_is_zero_u32(e), ToBits(1, 32))
flat_commit_if_ok(ok, dst, tmp, n) == flat_memcpy_when(ok, dst, tmp, n)

(***************************************************************************)
(* The accumulate-then-commit idiom: init, up to MaxLen + 1 calls of or,   *)
(* ok, commit_if_ok.  loc.conds is the sequence of conds passed to or.     *)
(***************************************************************************)
\* cond: 0, 1, 2, 3, 2^31, 2^32 - 1
ErrConds == {ToBits(k, 32) : k \in 0..3} \cup {TopBit(32), Ones(32)}

InitErr ==
  /\ pc = "start"
  /\ fn = "erracc"
  /\ args \in UNION {[n : {n}, dst : {Stale(n + 1)}, tmp : {Vec(n + 1, LAMBDA k : Ones(8))}]
                     : n \in Lens}
  /\ mem = [acc |-> Ones(32), dst |-> args.dst, tmp |-> args.tmp]
  /\ loc = [conds |-> <<>>]
  /\ ret = <<>>

ErraccInit ==
  /\ pc = "start"
  /\ pc' = "acc"
  /\ mem' = [mem EXCEPT !.acc = flat_erracc_init(mem.acc)]
  /\ UNCHANGED <<fn, args, loc, ret>>

ErraccOr ==
  /\ pc = "acc"
  /\ Len(loc.conds) < MaxLen + 1
  /\ \E cond \in ErrConds :
       /\ mem' = [mem EXCEPT !.acc = flat_erracc_or(mem.acc, cond)]
       /\ loc' = [conds |-> Append(loc.conds, cond)]
  /\ UNCHANGED <<pc, fn, args, ret>>

ErraccOk ==
  /\ pc = "acc"
  /\ pc' = "ok"
  /\ ret' = flat_erracc_ok(mem.acc)
  /\ UNCHANGED <<fn, args, mem, loc>>

CommitIfOk ==
  /\ pc = "ok"
  /\ pc' = "done"
  /\ LET r == flat_commit_if_ok(ret, mem.dst, mem.tmp, args.n)
     IN mem' = [mem EXCEPT !.dst = r.mem.dst, !.tmp = r.mem.src]
  /\ UNCHANGED <<fn, args, loc, ret>>

NextErr ==
  \/ ErraccInit
  \/ ErraccOr
  \/ ErraccOk
  \/ CommitIfOk

SpecErr == InitErr /\ [][NextErr]_vars

\* C23: after flat_erracc_init and any sequence of flat_erracc_or calls with
\* arbitrary unsigned cond values, flat_erracc_ok returns 1 if and only if
\* every cond passed was 0.
C23_ErraccAnyNonzeroBit ==
  (fn = "erracc" /\ pc \in {"ok", "done"}) =>
    (ret = ToBits(1, 32) <=> \A i \in 1..Len(loc.conds) : loc.conds[i] = Zero(32))

\* C24: for conds in {0, 1}, flat_commit_if_ok(flat_erracc_ok(&e), dst, tmp, n)
\* leaves dst as it was if some cond was 1 (later or(0) calls do not clear
\* the failure) and leaves dst[0..n) = tmp[0..n) if all were 0 (no call
\* included); tmp is never modified.
C24_CommitOnlyIfNoFailure ==
  (fn = "erracc" /\ pc = "done"
     /\ \A i \in 1..Len(loc.conds) : loc.conds[i] \in {ToBits(0, 32), ToBits(1, 32)}) =>
    /\ (\E i \in 1..Len(loc.conds) : loc.conds[i] = ToBits(1, 32)) => mem.dst = args.dst
    /\ (\A i \in 1..Len(loc.conds) : loc.conds[i] = ToBits(0, 32)) =>
         /\ SameOn(mem.dst, args.tmp, 0, args.n - 1)
         /\ At(mem.dst, args.n) = At(args.dst, args.n)
    /\ mem.tmp = args.tmp

\* or(1) then or(0): the failure holds and dst is not overwritten
C24_Witness ==
  /\ fn = "erracc" /\ pc = "done"
  /\ Len(loc.conds) >= 2
  /\ loc.conds[1] = ToBits(1, 32)
  /\ \A i \in 2..Len(loc.conds) : loc.conds[i] = ToBits(0, 32)
  /\ args.n = MaxLen
  /\ ret = ToBits(0, 32)
  /\ mem.dst = args.dst /\ mem.dst # mem.tmp

(***************************************************************************)
(* Index clamp and bounds-masked load.  base is the array of the len       *)
(* elements the caller owns; a read of base[i] with i outside it yields    *)
(* any byte.  The load's result is the read it issues and the set of       *)
(* values that read can produce.                                           *)
(***************************************************************************)
\* a clamp that drops the mask
flat_index_clamp_nomask(idx, len) == idx
flat_index_clamp(idx, len) ==
  LET m == flat_mask_lt_sz(idx, len)
  IN BvAnd(idx, m)

InBase(base, i) == ULt(i, ToBits(Len(base), SizeBits))
flat_masked_load_u8(base, len, idx) ==
  LET i == flat_index_clamp(idx, len)
  IN [reads |-> <<i>>,
      vals |-> IF InBase(base, i) THEN {At(base, ToNat(i))} ELSE ByteVals]

LoadFns == {"index_clamp", "masked_load_u8"}
LoadArgs(f) ==
  IF f = "index_clamp"
  THEN [idx : Idxs \cup Near(SizeBits), len : Near(SizeBits)]
  ELSE UNION {[base : Bufs(n), len : {ToBits(n, SizeBits)}, idx : Idxs] : n \in Lens}

InitLoad ==
  /\ pc = "call"
  /\ fn \in LoadFns
  /\ args \in LoadArgs(fn)
  /\ mem = <<>>
  /\ loc = [reads |-> <<>>]
  /\ ret = <<>>

IndexClamp ==
  /\ pc = "call" /\ fn = "index_clamp"
  /\ Finish([val |-> flat_index_clamp(args.idx, args.len), loc |-> loc])

MaskedLoad ==
  /\ pc = "call" /\ fn = "masked_load_u8"
  /\ LET r == flat_masked_load_u8(args.base, args.len, args.idx)
     IN \E v \in r.vals : Finish([val |-> v, loc |-> [reads |-> r.reads]])

NextLoad ==
  \/ IndexClamp
  \/ MaskedLoad

SpecLoad == InitLoad /\ [][NextLoad]_vars

\* C25: flat_index_clamp(idx, len) returns idx when idx < len and 0 when
\* idx >= len; flat_masked_load_u8(base, len, idx) reads the one element
\* base[flat_index_clamp(idx, len)] and returns it: base[idx] for an idx in
\* range, base[0] for an idx out of range.
C25_ClampAndMaskedLoad ==
  /\ Returned("index_clamp") =>
       ret = (IF ULt(args.idx, args.len) THEN args.idx ELSE Zero(SizeBits))
  /\ Returned("masked_load_u8") =>
       LET i == IF ULt(args.idx, args.len) THEN args.idx ELSE Zero(SizeBits)
       IN /\ loc.reads = <<i>>
          /\ InBase(args.base, i) => ret = At(args.base, ToNat(i))

\* both functions on an index equal to len, the load returning base[0]
C25_Witness ==
  \/ /\ Returned("index_clamp")
     /\ args.idx = args.len /\ args.len # Zero(SizeBits) /\ ret = Zero(SizeBits)
  \/ /\ Returned("masked_load_u8")
     /\ args.idx = args.len /\ args.len = ToBits(MaxLen, SizeBits)
     /\ At(args.base, 0) # At(args.base, 1)
     /\ ret = At(args.base, 0)

\* C26: for every idx and every len >= 0, len = 0 included, the element
\* flat_masked_load_u8 reads has an index strictly less than len.
C26_MaskedLoadInBounds ==
  Returned("masked_load_u8") =>
    \A k \in 1..Len(loc.reads) : ULt(loc.reads[k], args.len)

(***************************************************************************)
(* Word operations through pointers.  v is the array of words in memory,   *)
(* a pointer is an index into it; the statements act on v in program       *)
(* order, so two pointers to the same word are handled as the code does.   *)
(***************************************************************************)
\* a compare-swap that tests *a < *b
flat_sort2_u32_descending(v, a, b) ==
  LET m == flat_mask_lt_u32(At(v, a), At(v, b))
      t == BvAnd(BvXor(At(v, a), At(v, b)), m)
      v1 == Put(v, a, BvXor(At(v, a), t))
  IN Put(v1, b, BvXor(At(v1, b), t))
flat_sort2_u32(v, a, b) ==
  LET m == flat_mask_lt_u32(At(v, b), At(v, a))
      t == BvAnd(BvXor(At(v, a), At(v, b)), m)
      v1 == Put(v, a, BvXor(At(v, a), t))
  IN Put(v1, b, BvXor(At(v1, b), t))

\* the compare-swaps of the network, in call order
Sort4Calls == <<(<<0, 1>>), (<<2, 3>>), (<<0, 2>>), (<<1, 3>>), (<<1, 2>>)>>
RECURSIVE flat_sort4_u32_from(_, _)
flat_sort4_u32_from(v, k) ==
  IF k > Len(Sort4Calls) THEN v
  ELSE flat_sort4_u32_from(flat_sort2_u32(v, Sort4Calls[k][1], Sort4Calls[k][2]), k + 1)
flat_sort4_u32(v) == [v |-> flat_sort4_u32_from(v, 1), calls |-> Sort4Calls]

\* a swap gated on cond != 0
flat_cswap32_anybit(cond, v, a, b) ==
  LET m == BvNot(flat_mask_is_zero_u32(cond))
      t == BvAnd(BvXor(At(v, a), At(v, b)), m)
      v1 == Put(v, a, BvXor(At(v, a), t))
  IN Put(v1, b, BvXor(At(v1, b), t))
flat_cswap32(cond, v, a, b) ==
  LET m == flat_mask_from_bit_u32(cond)
      t == BvAnd(BvXor(At(v, a), At(v, b)), m)
      v1 == Put(v, a, BvXor(At(v, a), t))
  IN Put(v1, b, BvXor(At(v1, b), t))
flat_cswap64(cond, v, a, b) ==
  LET m == flat_mask_from_bit_u64(cond)
      t == BvAnd(BvXor(At(v, a), At(v, b)), m)
      v1 == Put(v, a, BvXor(At(v, a), t))
  IN Put(v1, b, BvXor(At(v1, b), t))

\* *x &= ~m
flat_zero_when_u32(cond, v, x) ==
  LET m == flat_mask_from_bit_u32(cond) IN Put(v, x, BvAnd(At(v, x), BvNot(m)))
flat_zero_when_u64(cond, v, x) ==
  LET m == flat_mask_from_bit_u64(cond) IN Put(v, x, BvAnd(At(v, x), BvNot(m)))
flat_zero_when_sz(cond, v, x) ==
  LET m == flat_mask_from_bit_sz(cond) IN Put(v, x, BvAnd(At(v, x), BvNot(m)))

\* *dst = (*dst & ~m) | (src & m)
flat_mov_when_u32(cond, v, dst, src) ==
  LET m == flat_mask_from_bit_u32(cond)
  IN Put(v, dst, BvOr(BvAnd(At(v, dst), BvNot(m)), BvAnd(src, m)))
flat_mov_when_u64(cond, v, dst, src) ==
  LET m == flat_mask_from_bit_u64(cond)
  IN Put(v, dst, BvOr(BvAnd(At(v, dst), BvNot(m)), BvAnd(src, m)))
flat_mov_when_sz(cond, v, dst, src) ==
  LET m == flat_mask_from_bit_sz(cond)
  IN Put(v, dst, BvOr(BvAnd(At(v, dst), BvNot(m)), BvAnd(src, m)))

(***************************************************************************)
(* One call of a word operation on a small memory.  The last word of v is  *)
(* referenced by no pointer of the call.                                   *)
(***************************************************************************)
WordFns == {"sort2_u32", "sort4_u32", "cswap", "zero_when", "mov_when"}
WordVals(W) == {ToBits(k, W) : k \in 0..Spread} \cup {TopBit(W), Ones(W)}
Bystander(W) == Vec(W, LAMBDA i : i % 2)
WordArgs(f) ==
  CASE f = "sort2_u32" ->
         [v : {<<x, y, Bystander(32)>> : x, y \in WordVals(32)}, a : {0}, b : {1}]
    [] f = "sort4_u32" ->
         [v : {Vec(4, LAMBDA k : g[k]) : g \in [1..4 -> WordVals(32)]}]
    [] f = "cswap" ->
         UNION {[ty : {ty}, cond : ErrConds,
                 v : {<<x, y, Bystander(Width(ty))>> : x, y \in WordVals(Width(ty))},
                 a : {0, 1}, b : {0, 1}] : ty \in {"u32", "u64"}}
    [] f = "zero_when" ->
         UNION {[ty : {ty}, cond : ErrConds,
                 v : {<<x, Bystander(Width(ty))>> : x \in WordVals(Width(ty))},
                 x : {0}] : ty \in {"u32", "u64", "sz"}}
    [] f = "mov_when" ->
         UNION {[ty : {ty}, cond : ErrConds,
                 v : {<<x, Bystander(Width(ty))>> : x \in WordVals(Width(ty))},
                 dst : {0}, src : WordVals(Width(ty))] : ty \in {"u32", "u64", "sz"}}

InitWord ==
  /\ pc = "call"
  /\ fn \in WordFns
  /\ args \in WordArgs(fn)
  /\ mem = [v |-> args.v]
  /\ loc = [calls |-> <<>>]
  /\ ret = <<>>

FinishWord(v, calls) ==
  /\ pc' = "done"
  /\ mem' = [v |-> v]
  /\ loc' = [calls |-> calls]
  /\ UNCHANGED <<fn, args, ret>>

Sort2 ==
  /\ pc = "call" /\ fn = "sort2_u32"
  /\ FinishWord(flat_sort2_u32(mem.v, args.a, args.b), <<(<<args.a, args.b>>)>>)

Sort4 ==
  /\ pc = "call" /\ fn = "sort4_u32"
  /\ LET r == flat_sort4_u32(mem.v) IN FinishWord(r.v, r.calls)

Cswap ==
  /\ pc = "call" /\ fn = "cswap"
  /\ FinishWord(IF args.ty = "u32" THEN flat_cswap32(args.cond, mem.v, args.a, args.b)
                ELSE flat_cswap64(args.cond, mem.v, args.a, args.b), <<>>)

ZeroWhen ==
  /\ pc = "call" /\ fn = "zero_when"
  /\ FinishWord(CASE args.ty = "u32" -> flat_zero_when_u32(args.cond, mem.v, args.x)
                  [] args.ty = "u64" -> flat_zero_when_u64(args.cond, mem.v, args.x)
                  [] args.ty = "sz" -> flat_zero_when_sz(args.cond, mem.v, args.x), <<>>)

MovWhen ==
  /\ pc = "call" /\ fn = "mov_when"
  /\ FinishWord(CASE args.ty = "u32" -> flat_mov_when_u32(args.cond, mem.v, args.dst, args.src)
                  [] args.ty = "u64" -> flat_mov_when_u64(args.cond, mem.v, args.dst, args.src)
                  [] args.ty = "sz" -> flat_mov_when_sz(args.cond, mem.v, args.dst, args.src),
                <<>>)

NextWord ==
  \/ Sort2
  \/ Sort4
  \/ Cswap
  \/ ZeroWhen
  \/ MovWhen

SpecWord == InitWord /\ [][NextWord]_vars

\* the number of positions of v holding x
Count(v, x) == Cardinality({k \in 1..Len(v) : v[k] = x})
ULe(a, b) == ~ULt(b, a)

\* C27: flat_sort4_u32 leaves v non-decreasing and a permutation of the
\* original four values (duplicates included), by the compare-swaps (0,1),
\* (2,3), (0,2), (1,3), (1,2) in that order whatever the values;
\* flat_sort2_u32 leaves *a = min and *b = max of the pair.
C27_SortNetwork ==
  /\ Returned("sort4_u32") =>
       /\ \A k \in 0..2 : ULe(At(mem.v, k), At(mem.v, k + 1))
       /\ \A k \in 0..3 : Count(mem.v, At(args.v, k)) = Count(args.v, At(args.v, k))
       /\ loc.calls = <<(<<0, 1>>), (<<2, 3>>), (<<0, 2>>), (<<1, 3>>), (<<1, 2>>)>>
  /\ Returned("sort2_u32") =>
       LET x == At(args.v, 0)  y == At(args.v, 1)
       IN /\ At(mem.v, 0) = (IF ULt(y, x) THEN y ELSE x)
          /\ At(mem.v, 1) = (IF ULt(y, x) THEN x ELSE y)
          /\ At(mem.v, 2) = At(args.v, 2)

\* a descending input with a duplicate and the top bit set comes out sorted
C27_Witness ==
  /\ Returned("sort4_u32")
  /\ args.v = <<Ones(32), TopBit(32), ToBits(1, 32), ToBits(1, 32)>>
  /\ mem.v = <<ToBits(1, 32), ToBits(1, 32), TopBit(32), Ones(32)>>

\* C28: flat_cswap32/64 exchanges *a and *b iff cond & 1, flat_zero_when_W
\* sets *x to 0 iff cond & 1, flat_mov_when_W sets *dst to src iff cond & 1;
\* with cond & 1 = 0 every referenced word keeps its bits, no other word is
\* touched, and flat_cswap with a and b the same word leaves it unchanged.
C28_GatedWordOps ==
  /\ Returned("cswap") =>
       /\ args.cond[1] = 1 =>
            /\ At(mem.v, args.a) = At(args.v, args.b)
            /\ At(mem.v, args.b) = At(args.v, args.a)
       /\ args.cond[1] = 0 => mem.v = args.v
       /\ args.a = args.b => mem.v = args.v
       /\ \A k \in 0..2 : k \notin {args.a, args.b} => At(mem.v, k) = At(args.v, k)
  /\ Returned("zero_when") =>
       /\ args.cond[1] = 1 => At(mem.v, args.x) = Zero(Width(args.ty))
       /\ args.cond[1] = 0 => mem.v = args.v
       /\ At(mem.v, 1) = At(args.v, 1)
  /\ Returned("mov_when") =>
       /\ args.cond[1] = 1 => At(mem.v, args.dst) = args.src
       /\ args.cond[1] = 0 => mem.v = args.v
       /\ At(mem.v, 1) = At(args.v, 1)

\* a 64-bit swap taken with cond = 3 (bit 0 set, bit 1 set as well)
C28_Witness ==
  /\ Returned("cswap") /\ args.ty = "u64" /\ args.cond = ToBits(3, 32)
  /\ args.a = 1 /\ args.b = 0
  /\ At(args.v, 0) = Ones(64) /\ At(args.v, 1) = TopBit(64)
  /\ At(mem.v, 0) = TopBit(64) /\ At(mem.v, 1) = Ones(64)

====
